---------------------------- MODULE Spec2Model ----------------------------
(***************************************************************************)
(* Cookie Manager: the drift / merge reconciliation engine.                *)
(*                                                                         *)
(*   merge.ts      mergeJsonFragments and its helpers                      *)
(*   templates.ts  resolveFeatureChanges, compareSemver                    *)
(*   status.ts     buildProjectStatus, findMatchingVersion                 *)
(*   sync.ts       buildProjectSyncReport, applySyncReport                 *)
(*                                                                         *)
(* Several specifications share the module: SpecMerge runs the fragment   *)
(* loop of mergeJsonFragments one fragment at a time; Spec runs status,    *)
(* sync planning and sync application over a project tree; SpecRender,     *)
(* SpecApply, SpecSemver and SpecChanges run template rendering, template  *)
(* application, version comparison and resolveFeatureChanges.              *)
(***************************************************************************)
EXTENDS Integers, Sequences, FiniteSets, TLC

VARIABLES
    \* ---- merge.ts: one call of mergeJsonFragments ----
    base,          \* the base object handed to mergeJsonFragments
    fragments,     \* the fragments merged so far, in list order
    merged,        \* the local `merged` (a clone of base, mutated in place)
    sources,       \* the local `sources` map: formatted path -> source
    conflicts,     \* the local `conflicts` list
    \* ---- the configuration and the project trees ----
    featureDefs,   \* loadFeatures: every feature definition, in directory order
    projectDefs,   \* loadProjects: the project configs
    disk,          \* project name -> (path -> content): the project trees
    mergeOption,   \* the --merge option of this run
    mergeTool,     \* what git merge-file does with two changed sides
    \* ---- status.ts and sync.ts ----
    status,        \* the last StatusReport, for the trees as they are now
    report,        \* the last SyncReport
    planDisk,      \* the trees as collectSyncReport read them
    applyPc,       \* where applySyncReport stands: project, loop, index
    fsLog,         \* the file operations applySyncReport has made, in order
    runs,          \* calls of collectSyncReport so far
    \* ---- templates.ts: one call of applyTemplateVars ----
    templateText,     \* the content, as the pieces it was written from
    templateVars,     \* the project's templateVars
    ignoredVariables, \* options.ignoredVariables
    rendered,         \* what the call did: nothing yet, returned or threw
    \* ---- template-apply.ts: one call of applyTemplateToProject ----
    templateDef,      \* the template: its files list and its files directory
    projectTree,      \* the project repository: path -> file
    projectFile,      \* config/projects/<name>.json as it is on disk
    applied,          \* what the call did, and what it found
    \* ---- compareSemver on its own ----
    semverInput,      \* three version strings
    semverResult,     \* the comparisons made between them
    \* ---- templates.ts: one call of resolveFeatureChanges ----
    changeFeature,    \* the feature: its version and its `changes`
    changeResult      \* what the call returned

mergeVars == <<base, fragments, merged, sources, conflicts>>
configVars == <<featureDefs, projectDefs, mergeOption, mergeTool>>
syncVars == <<featureDefs, projectDefs, disk, mergeOption, mergeTool, status, report,
              planDisk, applyPc, fsLog, runs>>
changeVars == <<changeFeature, changeResult>>
applyVars == <<templateDef, projectTree, projectFile, applied, semverInput, semverResult,
               changeFeature, changeResult>>
renderVars == <<templateText, templateVars, ignoredVariables, rendered>>
vars == <<base, fragments, merged, sources, conflicts, featureDefs, projectDefs, disk,
          mergeOption, mergeTool, status, report, planDisk, applyPc, fsLog, runs,
          templateText, templateVars, ignoredVariables, rendered,
          templateDef, projectTree, projectFile, applied, semverInput, semverResult,
          changeFeature, changeResult>>

(***************************************************************************)
(* JSON values.  A value is a record [t, s, o, a]: t is the type tag, s    *)
(* the text of a scalar, o the key -> value map of an object and a the     *)
(* element list of an array.  Objects are unordered maps: the insertion    *)
(* order of keys is not modelled, entries are visited in KeyOrder.         *)
(***************************************************************************)
NoKeys == [k \in {} |-> 0]

Undefined == [t |-> "undefined", s |-> "", o |-> NoKeys, a |-> <<>>]
JNull == [t |-> "null", s |-> "", o |-> NoKeys, a |-> <<>>]
JStr(x) == [t |-> "string", s |-> x, o |-> NoKeys, a |-> <<>>]
JArr(xs) == [t |-> "array", s |-> "", o |-> NoKeys, a |-> xs]
JObj(f) == [t |-> "object", s |-> "", o |-> f, a |-> <<>>]
JEmpty == JObj(NoKeys)
JKey(k, v) == JObj([x \in {k} |-> v])
JKeys2(k1, v1, k2, v2) == JObj([x \in {k1, k2} |-> IF x = k1 THEN v1 ELSE v2])

\* The keys objects of the model use, in the order entries are visited.
KeyOrder == <<"0", "a", "b", "a.b">>
Keys == {KeyOrder[i] : i \in DOMAIN KeyOrder}

\* A key as its dot-separated pieces: formatPath joins keys with ".", so the
\* key "a.b" formats like the path a, b.
KeyAtoms(k) == IF k = "a.b" THEN <<"a", "b">> ELSE <<k>>

\* The array index a key names ("0" is index 0), or -1.
KeyIndex(k) == IF k = "0" THEN 0 ELSE -1

isPlainObject(value) == value.t = "object"

Get(obj, k) == IF k \in DOMAIN obj.o THEN obj.o[k] ELSE Undefined

Put(obj, k, v) ==
    JObj([x \in (DOMAIN obj.o) \cup {k} |-> IF x = k THEN v ELSE obj.o[x]])

\* typeof: null and arrays are "object" to JavaScript.
TypeOf(v) ==
    IF v.t \in {"null", "array", "object"} THEN "object" ELSE v.t

\* What b[key] reads when a's entry key is looked up in b (an object or,
\* through the object branch, an array).
Index(b, k) ==
    IF b.t = "object" THEN Get(b, k)
    ELSE IF b.t = "array" /\ KeyIndex(k) >= 0 /\ KeyIndex(k) < Len(b.a)
         THEN b.a[KeyIndex(k) + 1]
    ELSE Undefined

\* Object.entries(v).length
EntryCount(v) ==
    IF v.t = "object" THEN Cardinality(DOMAIN v.o)
    ELSE IF v.t = "array" THEN Len(v.a) ELSE 0

RECURSIVE deepEqual(_, _)
deepEqual(a, b) ==
    IF a.t = b.t /\ a.t \in {"undefined", "null", "string"} /\ a.s = b.s THEN TRUE
    ELSE IF TypeOf(a) # TypeOf(b) THEN FALSE
    ELSE IF a.t = "null" \/ b.t = "null" THEN FALSE
    ELSE IF a.t = "array"
         THEN b.t = "array" /\ Len(a.a) = Len(b.a)
              /\ \A i \in 1..Len(a.a) : deepEqual(a.a[i], b.a[i])
    ELSE IF TypeOf(a) = "object" /\ TypeOf(b) = "object"
         THEN EntryCount(a) = EntryCount(b)
              /\ \A k \in DOMAIN a.o : deepEqual(a.o[k], Index(b, k))
    ELSE FALSE

\* formatPath: the keys joined with "."; modelled as the list of pieces.
RECURSIVE formatPath(_)
formatPath(path) ==
    IF path = <<>> THEN <<>> ELSE KeyAtoms(Head(path)) \o formatPath(Tail(path))

IsPrefix(p, q) == Len(p) <= Len(q) /\ SubSeq(q, 1, Len(p)) = p

\* key === pathKey || key.startsWith(`${pathKey}.`)
clearNestedSources(srcs, path) ==
    LET pathKey == formatPath(path)
        keep == {key \in DOMAIN srcs : ~IsPrefix(pathKey, key)}
    IN  [key \in keep |-> srcs[key]]

recordConflictIfNeeded(existingValue, nextValue, source, srcs, cfl, path) ==
    LET pathKey == formatPath(path)
    IN  IF pathKey \notin DOMAIN srcs THEN cfl
        ELSE IF srcs[pathKey] = source THEN cfl
        ELSE IF existingValue.t = "undefined" THEN cfl
        ELSE IF deepEqual(existingValue, nextValue) THEN cfl
        ELSE Append(cfl, [path |-> pathKey,
                          previousSource |-> srcs[pathKey],
                          nextSource |-> source,
                          previousValue |-> existingValue,
                          nextValue |-> nextValue])

SetSource(srcs, path, source) ==
    LET pathKey == formatPath(path)
    IN  [key \in (DOMAIN srcs) \cup {pathKey} |->
            IF key = pathKey THEN source ELSE srcs[key]]

\* A different rule, in which two arrays are joined instead of replaced.
assignValueConcat(existingValue, fragmentValue) ==
    IF existingValue.t = "array" /\ fragmentValue.t = "array"
    THEN JArr(existingValue.a \o fragmentValue.a)
    ELSE fragmentValue

\* target[key] = structuredClone(fragmentValue): the non-object value replaces
\* whatever was there.
assignValue(existingValue, fragmentValue) == fragmentValue

\* The entries of an object, in visiting order.
Entries(obj) == SelectSeq(KeyOrder, LAMBDA k : k \in DOMAIN obj.o)

\* mergeObject: st is [target, sources, conflicts], the three structures the
\* code mutates in place; the result is their state after the call.
RECURSIVE mergeEntries(_, _, _, _, _)
mergeEntries(ks, st, fragment, source, path) ==
    IF ks = <<>> THEN st
    ELSE
      LET key == Head(ks)
          fragmentValue == fragment.o[key]
          nextPath == Append(path, key)
          existingValue == Get(st.target, key)
          after ==
            IF isPlainObject(fragmentValue)
            THEN IF isPlainObject(existingValue)
                 THEN LET sub == mergeEntries(Entries(fragmentValue),
                                     [st EXCEPT !.target = existingValue],
                                     fragmentValue, source, nextPath)
                      IN  [sub EXCEPT !.target = Put(st.target, key, sub.target)]
                 ELSE LET cfl == IF existingValue.t # "undefined"
                                 THEN recordConflictIfNeeded(existingValue,
                                          fragmentValue, source, st.sources,
                                          st.conflicts, nextPath)
                                 ELSE st.conflicts
                          sub == mergeEntries(Entries(fragmentValue),
                                     [target |-> JEmpty,
                                      sources |-> clearNestedSources(st.sources, nextPath),
                                      conflicts |-> cfl],
                                     fragmentValue, source, nextPath)
                      IN  [sub EXCEPT !.target = Put(st.target, key, sub.target)]
            ELSE [target |-> Put(st.target, key, assignValue(existingValue, fragmentValue)),
                  sources |-> SetSource(clearNestedSources(st.sources, nextPath),
                                        nextPath, source),
                  conflicts |-> recordConflictIfNeeded(existingValue, fragmentValue,
                                    source, st.sources, st.conflicts, nextPath)]
      IN  mergeEntries(Tail(ks), after, fragment, source, path)

mergeObject(st, fragment, source, path) ==
    mergeEntries(Entries(fragment), st, fragment, source, path)

RECURSIVE mergeLoop(_, _)
mergeLoop(st, frags) ==
    IF frags = <<>> THEN st
    ELSE mergeLoop(mergeObject(st, Head(frags).value, Head(frags).source, <<>>),
                   Tail(frags))

mergeJsonFragments(b, frags) ==
    LET st == mergeLoop([target |-> b, sources |-> NoKeys, conflicts |-> <<>>], frags)
    IN  [merged |-> st.target, conflicts |-> st.conflicts]


(***************************************************************************)
(* Sequences as the code walks them.                                       *)
(***************************************************************************)
RECURSIVE FoldLeft(_, _, _)
FoldLeft(Op(_, _), acc, s) ==
    IF s = <<>> THEN acc ELSE FoldLeft(Op, Op(acc, Head(s)), Tail(s))

Range(s) == {s[i] : i \in DOMAIN s}

Includes(s, x) == \E i \in DOMAIN s : s[i] = x

MapSeq(Op(_), s) == [i \in DOMAIN s |-> Op(s[i])]

\* Array.prototype.sort with a comparator: a stable sort, here by insertion.
RECURSIVE InsertSorted(_, _, _)
InsertSorted(Cmp(_, _), sorted, x) ==
    IF sorted = <<>> THEN <<x>>
    ELSE IF Cmp(sorted[Len(sorted)], x) <= 0 THEN Append(sorted, x)
    ELSE Append(InsertSorted(Cmp, SubSeq(sorted, 1, Len(sorted) - 1), x),
                sorted[Len(sorted)])

SortBy(Cmp(_, _), s) ==
    FoldLeft(LAMBDA sorted, x : InsertSorted(Cmp, sorted, x), <<>>, s)

(***************************************************************************)
(* compareSemver.  A version string is modelled as what split(".") makes   *)
(* of it: the list of its segments, each segment the list of its           *)
(* characters.  The characters of the model are the digits and a, b.       *)
(***************************************************************************)
Alphabet == <<"0", "1", "2", "3", "4", "5", "6", "7", "8", "9", "a", "b">>

\* The place of a character in code-unit order.
CharCode(c) == CHOOSE i \in DOMAIN Alphabet : Alphabet[i] = c

IsDigit(c) == CharCode(c) <= 10

\* Number.isFinite(Number(part)): the segment is empty or all digits.
IsNumber(part) == \A i \in DOMAIN part : IsDigit(part[i])

\* Number(part) for such a segment; Number("") is 0.
RECURSIVE ToNumber(_)
ToNumber(part) ==
    IF part = <<>> THEN 0
    ELSE 10 * ToNumber(SubSeq(part, 1, Len(part) - 1)) + (CharCode(part[Len(part)]) - 1)

\* leftPart < rightPart on strings: code-unit lexicographic order.
RECURSIVE StringLess(_, _)
StringLess(l, r) ==
    IF r = <<>> THEN FALSE
    ELSE IF l = <<>> THEN TRUE
    ELSE IF CharCode(Head(l)) # CharCode(Head(r)) THEN CharCode(Head(l)) < CharCode(Head(r))
    ELSE StringLess(Tail(l), Tail(r))

Zero == <<"0">>

Max(a, b) == IF a >= b THEN a ELSE b

RECURSIVE compareParts(_, _, _, _)
compareParts(leftParts, rightParts, index, length) ==
    IF index > length THEN 0
    ELSE
      LET leftPart == IF index <= Len(leftParts) THEN leftParts[index] ELSE Zero
          rightPart == IF index <= Len(rightParts) THEN rightParts[index] ELSE Zero
      IN  IF IsNumber(leftPart) /\ IsNumber(rightPart)
          THEN IF ToNumber(leftPart) # ToNumber(rightPart)
               THEN (IF ToNumber(leftPart) < ToNumber(rightPart) THEN -1 ELSE 1)
               ELSE compareParts(leftParts, rightParts, index + 1, length)
          ELSE IF leftPart # rightPart
               THEN (IF StringLess(leftPart, rightPart) THEN -1 ELSE 1)
               ELSE compareParts(leftParts, rightParts, index + 1, length)

\* The comparison with the numeric branch left out: every segment as text.
RECURSIVE comparePartsAsText(_, _, _, _)
comparePartsAsText(leftParts, rightParts, index, length) ==
    IF index > length THEN 0
    ELSE
      LET leftPart == IF index <= Len(leftParts) THEN leftParts[index] ELSE Zero
          rightPart == IF index <= Len(rightParts) THEN rightParts[index] ELSE Zero
      IN  IF leftPart # rightPart
          THEN (IF StringLess(leftPart, rightPart) THEN -1 ELSE 1)
          ELSE comparePartsAsText(leftParts, rightParts, index + 1, length)

compareSemverAsText(left, right) ==
    IF left = right THEN 0
    ELSE comparePartsAsText(left, right, 1, Max(Len(left), Len(right)))

compareSemver(left, right) ==
    IF left = right THEN 0
    ELSE compareParts(left, right, 1, Max(Len(left), Len(right)))

\* The versions of the model.
V2 == <<<<"2">>, <<"0">>, <<"0">>>>
V9 == <<<<"9">>, <<"0">>, <<"0">>>>
V10 == <<<<"1", "0">>, <<"0">>, <<"0">>>>
V1 == <<<<"1">>, <<"0">>, <<"0">>>>

(***************************************************************************)
(* templates.ts: resolveFeatureChanges.  `renames` is an object, kept as   *)
(* the list of its entries; `deletes` is a Set, kept in insertion order.   *)
(***************************************************************************)
\* A rename that is entered without rewriting the entries that lead to `from`.
applyRenameDirect(renames, from, to) ==
    IF \E i \in DOMAIN renames : renames[i].from = from
    THEN [i \in DOMAIN renames |->
            IF renames[i].from = from THEN [from |-> from, to |-> to] ELSE renames[i]]
    ELSE Append(renames, [from |-> from, to |-> to])

\* templates.ts 112-119: the entries whose value is `from` now lead to `to`,
\* then renames[from] = to.
applyRename(renames, from, to) ==
    LET rewritten == [i \in DOMAIN renames |->
                        IF renames[i].to = from
                        THEN [from |-> renames[i].from, to |-> to]
                        ELSE renames[i]]
    IN  IF \E i \in DOMAIN rewritten : rewritten[i].from = from
        THEN [i \in DOMAIN rewritten |->
                IF rewritten[i].from = from THEN [from |-> from, to |-> to]
                ELSE rewritten[i]]
        ELSE Append(rewritten, [from |-> from, to |-> to])

\* A Set from which nothing is ever removed.
SetDeleteNothing(s, x) == s

\* deletes.delete(from)
SetDelete(s, x) == SelectSeq(s, LAMBDA y : y # x)

SetAdd(s, x) == IF Includes(s, x) THEN s ELSE Append(s, x)

resolveFeatureChanges(feature) ==
    LET applicable ==
          SortBy(LAMBDA a, b : compareSemver(a.version, b.version),
                 SelectSeq(feature.changes,
                           LAMBDA c : compareSemver(c.version, feature.version) <= 0))
        step(acc, change) ==
          LET afterRenames ==
                FoldLeft(LAMBDA a, r : [renames |-> applyRename(a.renames, r.from, r.to),
                                        deletes |-> SetDelete(a.deletes, r.from)],
                         acc, change.renames)
          IN  FoldLeft(LAMBDA a, removed : [a EXCEPT !.deletes = SetAdd(a.deletes, removed)],
                       afterRenames, change.deletes)
    IN  FoldLeft(step, [renames |-> <<>>, deletes |-> <<>>], applicable)

(***************************************************************************)
(* Files.  The content of a file is a record [fmt, text, json]: a text     *)
(* file has fmt "text" and its text; a JSON file has the value it parses   *)
(* to and fmt "pretty" when its text is exactly what stringifyJson prints  *)
(* for that value (two-space indent, trailing newline), "compact" when it  *)
(* is another spelling of the same value.  NoFile is the absent file.      *)
(***************************************************************************)
NoFile == [fmt |-> "absent", text |-> "", json |-> Undefined]
Text(x) == [fmt |-> "text", text |-> x, json |-> Undefined]
Pretty(v) == [fmt |-> "pretty", text |-> "", json |-> v]
Compact(v) == [fmt |-> "compact", text |-> "", json |-> v]

Paths == {"p", "q", "j"}

\* A file system on which every path is present.
existsSyncAlways(tree, path) == TRUE

\* existsSync(join(project.path, path)).
existsSync(tree, path) == tree[path] # NoFile

\* JSON.parse of the file's text, or Undefined when it throws.
JsonParse(content) ==
    IF content.fmt \in {"pretty", "compact"} THEN content.json ELSE Undefined

\* content.trim().length > 0
NonBlank(content) == content # Text("") /\ content # NoFile

\* parseJsonObject: null (here Undefined) unless the text is a JSON object.
parseJsonObject(content) ==
    IF ~NonBlank(content) THEN Undefined
    ELSE IF isPlainObject(JsonParse(content)) THEN JsonParse(content)
    ELSE Undefined

stringifyJson(value) == Pretty(value)

(***************************************************************************)
(* Features and projects, as loadFeatures and loadProjects return them.    *)
(* A feature's `templates` is the content of its files under templateRoot, *)
(* rendered with the project's variables (NoFile where there is none).     *)
(***************************************************************************)
featureKey(feature) == [domain |-> feature.domain, version |-> feature.version]

NoOwner == [domain |-> "", version |-> <<>>]

\* groupFeaturesByDomain, then get(domain) ?? []
featureByDomain(features, domain) ==
    SelectSeq(features, LAMBDA f : f.domain = domain)

\* resolveProjectFeatures: the features the project declares, in the order
\* of its `features` object; an entry is NoFile-like when none is defined.
FindFeature(features, key) ==
    SelectSeq(features, LAMBDA f : featureKey(f) = key)

FeatureFound(features, key) == FindFeature(features, key) # <<>>

resolveProjectFeatures(project, features) ==
    MapSeq(LAMBDA key : FindFeature(features, key)[Len(FindFeature(features, key))],
           project.features)

\* Object.keys(feature.fileRules)
RuleKeys(feature) == MapSeq(LAMBDA r : r.path, feature.fileRules)

(***************************************************************************)
(* detectOwnershipConflicts.  `owners` is a Map from path to owner list,   *)
(* kept as the list of its entries in insertion order.                     *)
(***************************************************************************)
addOwner(owners, path, owner) ==
    IF \E i \in DOMAIN owners : owners[i].path = path
    THEN [i \in DOMAIN owners |->
            IF owners[i].path = path
            THEN [path |-> path, list |-> Append(owners[i].list, owner)]
            ELSE owners[i]]
    ELSE Append(owners, [path |-> path, list |-> <<owner>>])

Conflict(path, type, owners, detail, resolution) ==
    [path |-> path, type |-> type, owners |-> owners, detail |-> detail,
     resolution |-> resolution]

ownersToConflicts(owners) ==
    MapSeq(LAMBDA e : Conflict(e.path, "ownership", e.list, <<>>, ""),
           SelectSeq(owners, LAMBDA e : Len(e.list) > 1))

\* sync.ts: files, then templateFiles, then the keys of fileRules.
syncClaims(feature) == feature.files \o feature.templateFiles \o RuleKeys(feature)

\* status.ts: files, then the keys of fileRules.
statusClaims(feature) == feature.files \o RuleKeys(feature)

collectOwners(features, Claims(_)) ==
    FoldLeft(LAMBDA owners, feature :
                FoldLeft(LAMBDA o, path : addOwner(o, path, featureKey(feature)),
                         owners, Claims(feature)),
             <<>>, features)

detectOwnershipConflicts(features) ==
    ownersToConflicts(collectOwners(features, syncClaims))

statusDetectOwnershipConflicts(features) ==
    ownersToConflicts(collectOwners(features, statusClaims))

conflictPathsOf(cfl) == {cfl[i].path : i \in DOMAIN cfl}

(***************************************************************************)
(* findMatchingVersion and resolveMergeBase.  loadTemplateFile throws      *)
(* when the template is missing: the result then has threw = TRUE.         *)
(***************************************************************************)
NoVersion == <<>>

findMatchingVersion(feature, filePath, content, features) ==
    LET candidates == featureByDomain(features, feature.domain)
        ordered == SortBy(LAMBDA a, b : compareSemver(a.version, b.version),
                          SelectSeq(candidates, LAMBDA c : c.version # feature.version))
        step(acc, candidate) ==
            IF acc.done \/ ~Includes(candidate.files, filePath) THEN acc
            ELSE IF candidate.templates[filePath] = NoFile
                 THEN [done |-> TRUE, threw |-> TRUE, version |-> NoVersion]
            ELSE IF candidate.templates[filePath] = content
                 THEN [done |-> TRUE, threw |-> FALSE, version |-> candidate.version]
            ELSE acc
    IN  FoldLeft(step, [done |-> FALSE, threw |-> FALSE, version |-> NoVersion], ordered)

\* A selection that takes the oldest older version instead of the latest.
resolveMergeBaseOldest(feature, templatePath, matchVersion, features) ==
    LET candidates ==
          SortBy(LAMBDA a, b : compareSemver(a.version, b.version),
                 SelectSeq(featureByDomain(features, feature.domain),
                           LAMBDA c : Includes(c.files, templatePath)))
        matched == SelectSeq(candidates, LAMBDA c : c.version = matchVersion)
        older == SelectSeq(candidates,
                           LAMBDA c : compareSemver(c.version, feature.version) < 0)
    IN  IF matchVersion # NoVersion /\ matched # <<>> THEN <<matched[1]>>
        ELSE IF older # <<>> THEN <<older[1]>>
        ELSE <<>>

\* The result is the list holding the base feature, or the empty list (null).
resolveMergeBase(feature, templatePath, matchVersion, features) ==
    LET candidates ==
          SortBy(LAMBDA a, b : compareSemver(a.version, b.version),
                 SelectSeq(featureByDomain(features, feature.domain),
                           LAMBDA c : Includes(c.files, templatePath)))
        matched == SelectSeq(candidates, LAMBDA c : c.version = matchVersion)
        older == SelectSeq(candidates,
                           LAMBDA c : compareSemver(c.version, feature.version) < 0)
    IN  IF matchVersion # NoVersion /\ matched # <<>> THEN <<matched[1]>>
        ELSE IF older # <<>> THEN <<older[Len(older)]>>
        ELSE <<>>

(***************************************************************************)
(* runThreeWayMerge: git merge-file -p base local remote.  A side that     *)
(* equals the base brings no change, so the other side is the result;      *)
(* when both sides changed the tool may merge cleanly (into the local or   *)
(* the remote text when one holds the other's change, else into a text of  *)
(* its own), may report a conflict with its marker text, or may fail       *)
(* (it cannot be started, or exits above 1).  `tool` is what it does in    *)
(* this run.                                                               *)
(***************************************************************************)
MergedText == Text("merged")
MarkerText == Text("markers")

Tools == {"merged", "local", "remote", "conflict", "fail"}

runThreeWayMerge(mergeBase, local, remote, tool) ==
    IF tool = "fail" THEN [threw |-> TRUE, content |-> NoFile, conflict |-> FALSE]
    ELSE IF local = mergeBase THEN [threw |-> FALSE, content |-> remote, conflict |-> FALSE]
    ELSE IF remote = mergeBase \/ local = remote
         THEN [threw |-> FALSE, content |-> local, conflict |-> FALSE]
    ELSE IF tool = "conflict" THEN [threw |-> FALSE, content |-> MarkerText, conflict |-> TRUE]
    ELSE IF tool = "local" THEN [threw |-> FALSE, content |-> local, conflict |-> FALSE]
    ELSE IF tool = "remote" THEN [threw |-> FALSE, content |-> remote, conflict |-> FALSE]
    ELSE [threw |-> FALSE, content |-> MergedText, conflict |-> FALSE]

MergeStrategies == {"none", "markers", "keep-local", "overwrite"}

\* A resolution that blocks whatever the strategy is.
resolveMergeConflictAlwaysBlocks(strategy, inputs) ==
    [content |-> <<>>, blocked |-> TRUE, note |-> "blocked"]

\* content is the list holding the text to write, or the empty list (null).
resolveMergeConflict(strategy, inputs) ==
    CASE strategy = "markers" ->
           [content |-> <<inputs.merged>>, blocked |-> FALSE, note |-> "markers"]
      [] strategy = "keep-local" ->
           [content |-> <<>>, blocked |-> FALSE, note |-> "kept local"]
      [] strategy = "overwrite" ->
           [content |-> <<inputs.desired>>, blocked |-> FALSE,
            note |-> "overwrote with template"]
      [] OTHER ->
           [content |-> <<>>, blocked |-> TRUE, note |-> "blocked"]

(***************************************************************************)
(* merge.ts: loadJsonMergeFragments.  `files` is a Map from path to        *)
(* fragment list, kept as its entries in insertion order.  A missing       *)
(* fragment file, or one that is no JSON object, throws.                   *)
(***************************************************************************)
addFragment(files, path, fragment) ==
    IF \E i \in DOMAIN files : files[i].path = path
    THEN [i \in DOMAIN files |->
            IF files[i].path = path
            THEN [path |-> path, fragments |-> Append(files[i].fragments, fragment)]
            ELSE files[i]]
    ELSE Append(files, [path |-> path, fragments |-> <<fragment>>])

loadJsonMergeFragments(features) ==
    FoldLeft(LAMBDA acc, feature :
        FoldLeft(LAMBDA a, filePath :
            IF a.threw THEN a
            ELSE IF ~isPlainObject(JsonParse(feature.templates[filePath]))
                 THEN [a EXCEPT !.threw = TRUE]
            ELSE [a EXCEPT !.files =
                    addFragment(a.files, filePath,
                                [source |-> featureKey(feature),
                                 value |-> JsonParse(feature.templates[filePath])])],
            acc, feature.fileMergeJson),
        [threw |-> FALSE, files |-> <<>>], features)

(***************************************************************************)
(* sync.ts: the plan of one project.                                       *)
(***************************************************************************)
WriteAction(path, content, source) ==
    [kind |-> "write", path |-> path, content |-> content, source |-> source,
     from |-> "", to |-> ""]
DeleteAction(path) ==
    [kind |-> "delete", path |-> path, content |-> NoFile, source |-> <<>>,
     from |-> "", to |-> ""]
RenameAction(from, to) ==
    [kind |-> "rename", path |-> "", content |-> NoFile, source |-> <<>>,
     from |-> from, to |-> to]

\* An error message: its wording and the path it names.
Err(msg, path) == [msg |-> msg, path |-> path]

\* A planner that renames whenever the source is there, onto whatever the
\* destination holds.
applyRenameActionsOverwrite(actions, tree, renames) ==
    FoldLeft(LAMBDA acts, r :
                IF ~existsSync(tree, r.from) THEN acts
                ELSE Append(acts, RenameAction(r.from, r.to)),
             actions, renames)

\* sync.ts 366-385: one entry of the resolved renames after the other.
applyRenameActions(actions, tree, renames) ==
    FoldLeft(LAMBDA acts, r :
                IF ~existsSync(tree, r.from) THEN acts
                ELSE IF existsSync(tree, r.to) THEN Append(acts, DeleteAction(r.from))
                ELSE Append(acts, RenameAction(r.from, r.to)),
             actions, renames)

applyDeleteActions(actions, tree, deletes) ==
    LET skipped ==
          {actions[i].path : i \in {n \in DOMAIN actions : actions[n].kind = "write"}}
          \cup {actions[i].from : i \in {n \in DOMAIN actions : actions[n].kind = "rename"}}
          \cup {actions[i].to : i \in {n \in DOMAIN actions : actions[n].kind = "rename"}}
    IN  FoldLeft(LAMBDA acts, path :
                    IF path \in skipped THEN acts
                    ELSE IF ~existsSync(tree, path) THEN acts
                    ELSE Append(acts, DeleteAction(path)),
                 actions, deletes)

validateActionCollisions(actions, errors) ==
    LET step(acc, action) ==
          IF action.kind = "write"
          THEN LET e1 == IF action.path \in acc.writePaths
                         THEN Append(acc.errors, Err("Multiple writes planned", action.path))
                         ELSE acc.errors
                   e2 == IF action.path \in acc.renameTargets
                            \/ action.path \in acc.renameSources
                         THEN Append(e1, Err("Write collides with rename", action.path))
                         ELSE e1
               IN  [acc EXCEPT !.errors = e2,
                               !.writePaths = @ \cup {action.path}]
          ELSE IF action.kind = "rename"
          THEN LET e1 == IF action.to \in acc.renameTargets
                         THEN Append(acc.errors, Err("Multiple renames target", action.to))
                         ELSE acc.errors
                   e2 == IF action.to \in acc.writePaths
                         THEN Append(e1, Err("Rename target collides with write", action.to))
                         ELSE e1
               IN  [acc EXCEPT !.errors = e2,
                               !.renameTargets = @ \cup {action.to},
                               !.renameSources = @ \cup {action.from}]
          ELSE acc
    IN  FoldLeft(step, [errors |-> errors, writePaths |-> {}, renameTargets |-> {},
                        renameSources |-> {}], actions).errors

\* The loop over the JSON merge files (sync.ts 132-169).
planMergeFiles(acc, mergeFiles, conflictPaths, tree) ==
    FoldLeft(LAMBDA a, mergeFile :
        IF mergeFile.path \in conflictPaths THEN a
        ELSE
          LET actual == IF existsSync(tree, mergeFile.path)
                        THEN tree[mergeFile.path] ELSE Text("")
              parsed == parseJsonObject(actual)
              mergeBase == IF parsed = Undefined THEN JEmpty ELSE parsed
              result == mergeJsonFragments(mergeBase, mergeFile.fragments)
              expected == stringifyJson(result.merged)
          IN  IF NonBlank(actual) /\ parsed = Undefined
              THEN [a EXCEPT !.errors = Append(@, Err("Invalid JSON", mergeFile.path))]
              ELSE IF result.conflicts # <<>>
              THEN [a EXCEPT
                      !.conflicts = @ \o MapSeq(LAMBDA c :
                          Conflict(mergeFile.path, "json-merge",
                                   <<c.previousSource, c.nextSource>>, c.path, ""),
                          result.conflicts),
                      !.errors = Append(@, Err("JSON merge conflicts detected",
                                               mergeFile.path))]
              ELSE IF expected # actual
              THEN [a EXCEPT !.actions = Append(@,
                      WriteAction(mergeFile.path, expected,
                                  MapSeq(LAMBDA f : f.source, mergeFile.fragments)))]
              ELSE a,
        acc, mergeFiles)

\* The plan as the loops build it: `lookups` logs each call of
\* findMatchingVersion with its result, `calls` each call of runThreeWayMerge
\* with what the tool answered.
EmptyPlan(ownership, errors) ==
    [threw |-> FALSE, actions |-> <<>>, conflicts |-> ownership, errors |-> errors,
     lookups |-> <<>>, calls |-> <<>>]

\* sync.ts 232-264: the merge reported a conflict.
planConflict(b, path, owner, call, baseVersion, resolution) ==
    LET mergeConflict == Conflict(path, "merge", <<owner>>, <<"base", baseVersion>>,
                                  resolution.note)
    IN  IF resolution.blocked
        THEN [b EXCEPT !.calls = Append(@, call),
                       !.conflicts = Append(@, mergeConflict),
                       !.errors = Append(@, Err("Merge conflict detected", path))]
        ELSE IF resolution.content = <<>>
        THEN [b EXCEPT !.calls = Append(@, call),
                       !.conflicts = Append(@, mergeConflict)]
        ELSE [b EXCEPT !.calls = Append(@, call),
                       !.conflicts = Append(@, mergeConflict),
                       !.actions = Append(@,
                           WriteAction(path, resolution.content[1], <<owner>>))]

\* sync.ts 231-275: what runThreeWayMerge answered.
planMerged(b, path, owner, actual, desired, baseVersion, mergeResult, strategy) ==
    LET call == [path |-> path, base |-> baseVersion, local |-> actual,
                 remote |-> desired, threw |-> mergeResult.threw,
                 conflict |-> mergeResult.conflict, content |-> mergeResult.content]
    IN  IF mergeResult.threw
        THEN [b EXCEPT !.threw = TRUE, !.calls = Append(@, call)]
        ELSE IF mergeResult.conflict
        THEN planConflict(b, path, owner, call, baseVersion,
                          resolveMergeConflict(strategy,
                              [actual |-> actual, desired |-> desired,
                               merged |-> mergeResult.content]))
        ELSE [b EXCEPT !.calls = Append(@, call),
                       !.actions = Append(@,
                           WriteAction(path, mergeResult.content, <<owner>>))]

\* sync.ts 229-286: merge from the base, or write the template when there
\* is no base.  loadTemplateFile throws when the base has no template file.
planWithBase(b, path, owner, actual, desired, baseFeature, strategy, tool) ==
    IF baseFeature = <<>>
    THEN [b EXCEPT !.actions = Append(@, WriteAction(path, desired, <<owner>>))]
    ELSE IF baseFeature[1].templates[path] = NoFile THEN [b EXCEPT !.threw = TRUE]
    ELSE planMerged(b, path, owner, actual, desired, baseFeature[1].version,
                    runThreeWayMerge(baseFeature[1].templates[path], actual, desired,
                                     tool),
                    strategy)

\* sync.ts 214-228: the file differs from the template.
planDrift(a, feature, path, actual, desired, match, features, strategy, tool) ==
    IF match.threw THEN [a EXCEPT !.threw = TRUE]
    ELSE planWithBase([a EXCEPT !.lookups = Append(@,
                          [path |-> path, owner |-> featureKey(feature),
                           content |-> actual, version |-> match.version])],
                      path, featureKey(feature), actual, desired,
                      resolveMergeBase(feature, path, match.version, features),
                      strategy, tool)

\* One template of resolved.files (sync.ts 192-287).
planTemplate(a, feature, path, conflictPaths, mergePaths, tree, features, strategy, tool) ==
    IF a.threw THEN a
    ELSE IF path \in conflictPaths \/ path \in mergePaths THEN a
    ELSE IF ~existsSync(tree, path)
    THEN [a EXCEPT !.actions = Append(@,
            WriteAction(path, feature.templates[path], <<featureKey(feature)>>))]
    ELSE IF tree[path] = feature.templates[path] THEN a
    ELSE planDrift(a, feature, path, tree[path], feature.templates[path],
                   findMatchingVersion(feature, path, tree[path], features),
                   features, strategy, tool)

\* The fileRules loop (sync.ts 179-190).
planRules(acc, feature, conflictPaths, tree) ==
    FoldLeft(LAMBDA a, rule :
                IF rule.require # "exists" THEN a
                ELSE IF rule.path \in conflictPaths THEN a
                ELSE IF ~existsSync(tree, rule.path)
                THEN [a EXCEPT !.errors =
                        Append(@, Err("Required file missing", rule.path))]
                ELSE a,
             acc, feature.fileRules)

\* The loop over resolved.files (sync.ts 192-287).
planFiles(acc, feature, conflictPaths, mergePaths, tree, features, strategy, tool) ==
    FoldLeft(LAMBDA a, path :
                planTemplate(a, feature, path, conflictPaths, mergePaths, tree,
                             features, strategy, tool),
             acc, feature.files)

\* loadTemplateFiles of templateFiles and its loop (sync.ts 289-311).
planTemplateOnly(acc, feature, conflictPaths, mergePaths, tree) ==
    IF acc.threw THEN acc
    ELSE IF \E i \in DOMAIN feature.templateFiles :
               feature.templates[feature.templateFiles[i]] = NoFile
    THEN [acc EXCEPT !.threw = TRUE]
    ELSE FoldLeft(LAMBDA a, path :
                     IF path \in conflictPaths \/ path \in mergePaths THEN a
                     ELSE IF ~existsSync(tree, path)
                     THEN [a EXCEPT !.actions = Append(@,
                             WriteAction(path, feature.templates[path],
                                         <<featureKey(feature)>>))]
                     ELSE a,
                  acc, feature.templateFiles)

\* applyRenameActions, then applyDeleteActions (sync.ts 313-323).
planChanges(acc, tree, resolved) ==
    IF acc.threw THEN acc
    ELSE [acc EXCEPT !.actions =
            applyDeleteActions(applyRenameActions(@, tree, resolved.renames),
                               tree, resolved.deletes)]

\* One feature of the project (sync.ts 171-324).  resolveFeatureTemplates
\* throws when a template of `files` is missing.
planFeature(acc, feature, conflictPaths, mergePaths, tree, features, strategy, tool) ==
    IF acc.threw THEN acc
    ELSE IF \E i \in DOMAIN feature.files : feature.templates[feature.files[i]] = NoFile
    THEN [acc EXCEPT !.threw = TRUE]
    ELSE planChanges(
           planTemplateOnly(
             planFiles(planRules(acc, feature, conflictPaths, tree),
                       feature, conflictPaths, mergePaths, tree, features, strategy, tool),
             feature, conflictPaths, mergePaths, tree),
           tree, resolveFeatureChanges(feature))

Threw == [threw |-> TRUE]

\* sync.ts 326-337: validateActionCollisions, ok and the report.
finishProjectReport(project, planned, errors) ==
    [threw |-> FALSE, name |-> project.name, actions |-> planned.actions,
     conflicts |-> planned.conflicts, errors |-> errors,
     lookups |-> planned.lookups, calls |-> planned.calls,
     ok |-> planned.actions = <<>> /\ planned.conflicts = <<>> /\ errors = <<>>]

validateProjectPlan(project, planned) ==
    IF planned.threw THEN Threw
    ELSE finishProjectReport(project, planned,
                             validateActionCollisions(planned.actions, planned.errors))

\* sync.ts 128-324: the merge files, then the features in order.
planProject(project, orderedFeatures, ownership, loaded, features, tree, strategy, tool) ==
    IF loaded.threw THEN Threw
    ELSE validateProjectPlan(project,
           FoldLeft(LAMBDA a, feature :
                       planFeature(a, feature, conflictPathsOf(ownership),
                                   {loaded.files[i].path : i \in DOMAIN loaded.files},
                                   tree, features, strategy, tool),
                    planMergeFiles(
                        EmptyPlan(ownership,
                                  IF ownership # <<>>
                                  THEN <<Err("Ownership conflicts detected", "")>>
                                  ELSE <<>>),
                        loaded.files, conflictPathsOf(ownership), tree),
                    orderedFeatures))

\* sync.ts 119-128.
planOrdered(project, orderedFeatures, features, tree, strategy, tool) ==
    planProject(project, orderedFeatures, detectOwnershipConflicts(orderedFeatures),
                loadJsonMergeFragments(orderedFeatures), features, tree, strategy, tool)

\* assertProjectPath and resolveProjectFeatures throw before anything is
\* planned.
buildProjectSyncReport(project, features, tree, strategy, tool) ==
    IF ~project.pathOk THEN Threw
    ELSE IF \E i \in DOMAIN project.features : ~FeatureFound(features, project.features[i])
    THEN Threw
    ELSE planOrdered(project, resolveProjectFeatures(project, features), features, tree,
                     strategy, tool)

NoReport == [threw |-> FALSE, projects |-> <<>>, hasChanges |-> FALSE,
             hasConflicts |-> FALSE, made |-> FALSE]

\* sync.ts 93-96; one throwing project aborts the run.
syncReportOf(projectReports) ==
    IF \E i \in DOMAIN projectReports : projectReports[i].threw
    THEN [threw |-> TRUE, projects |-> <<>>, hasChanges |-> FALSE,
          hasConflicts |-> FALSE, made |-> TRUE]
    ELSE [threw |-> FALSE, projects |-> projectReports,
          hasChanges |-> \E i \in DOMAIN projectReports :
                            projectReports[i].actions # <<>>,
          hasConflicts |-> \E i \in DOMAIN projectReports :
                              projectReports[i].conflicts # <<>>,
          made |-> TRUE]

\* collectSyncReport over every project (no --project filter).
collectSyncReport(projs, features, trees, strategy, tool) ==
    syncReportOf(MapSeq(LAMBDA project :
                           buildProjectSyncReport(project, features,
                                                  trees[project.name], strategy, tool),
                        projs))

(***************************************************************************)
(* status.ts: the status of one project.                                   *)
(***************************************************************************)
Drift(path, feature, kind, detail, matches) ==
    [path |-> path, feature |-> feature, kind |-> kind, detail |-> detail,
     matches |-> matches]

\* status.ts findMatchingVersion: as in sync.ts, but the result is the key
\* of the matching feature; `matches` is the list holding it, or empty.
statusFindMatchingVersion(feature, filePath, content, features) ==
    LET found == findMatchingVersion(feature, filePath, content, features)
    IN  [threw |-> found.threw,
         matches |-> IF found.version = NoVersion THEN <<>>
                     ELSE <<[domain |-> feature.domain, version |-> found.version]>>]

\* The loop over the JSON merge files of detectJsonMergeDrift.
detectJsonMergeDrift(features, conflictPaths, tree) ==
    LET loaded == loadJsonMergeFragments(features)
        owners(mergeFile) == MapSeq(LAMBDA f : f.source, mergeFile.fragments)
        step(a, mergeFile) ==
          LET parsed == JsonParse(tree[mergeFile.path])
              result == mergeJsonFragments(parsed, mergeFile.fragments)
          IN  IF mergeFile.path \in conflictPaths THEN a
              ELSE IF ~existsSync(tree, mergeFile.path)
              THEN [a EXCEPT !.missing = Append(@,
                      Drift(mergeFile.path, owners(mergeFile), "missing",
                            "json-merge", <<>>))]
              ELSE IF parsed = Undefined
              THEN [a EXCEPT !.mismatches = Append(@,
                      Drift(mergeFile.path, owners(mergeFile), "mismatch",
                            "Invalid JSON", <<>>))]
              ELSE IF ~isPlainObject(parsed)
              THEN [a EXCEPT !.mismatches = Append(@,
                      Drift(mergeFile.path, owners(mergeFile), "mismatch",
                            "Expected JSON object", <<>>))]
              ELSE [a EXCEPT
                      !.mismatches =
                          IF ~deepEqual(parsed, result.merged)
                          THEN Append(@, Drift(mergeFile.path, owners(mergeFile),
                                               "mismatch", "json-merge", <<>>))
                          ELSE @,
                      !.conflicts = @ \o MapSeq(LAMBDA c :
                          Conflict(mergeFile.path, "json-merge",
                                   <<c.previousSource, c.nextSource>>, c.path, ""),
                          result.conflicts)]
    IN  IF loaded.threw
        THEN [threw |-> TRUE, missing |-> <<>>, mismatches |-> <<>>, conflicts |-> <<>>]
        ELSE FoldLeft(step, [threw |-> FALSE, missing |-> <<>>, mismatches |-> <<>>,
                             conflicts |-> <<>>], loaded.files)

\* One feature of the project (status.ts 122-170).
statusFeature(acc, feature, conflictPaths, tree, features) ==
    LET owner == featureKey(feature)
        filesMissing == \E i \in DOMAIN feature.files :
                            feature.templates[feature.files[i]] = NoFile
        afterFiles ==
          FoldLeft(LAMBDA a, path :
                      LET found == statusFindMatchingVersion(feature, path, tree[path],
                                                             features)
                      IN  IF a.threw \/ path \in conflictPaths THEN a
                          ELSE IF ~existsSync(tree, path)
                          THEN [a EXCEPT !.missing = Append(@,
                                  Drift(path, <<owner>>, "missing", "", <<>>))]
                          ELSE IF tree[path] = feature.templates[path] THEN a
                          ELSE IF found.threw THEN [a EXCEPT !.threw = TRUE]
                          ELSE [a EXCEPT !.mismatches = Append(@,
                                  Drift(path, <<owner>>, "mismatch", "", found.matches))],
                   acc, feature.files)
    IN  IF acc.threw THEN acc
        ELSE IF filesMissing THEN [acc EXCEPT !.threw = TRUE]
        ELSE FoldLeft(LAMBDA a, rule :
                         IF a.threw \/ rule.require # "exists" THEN a
                         ELSE IF rule.path \in conflictPaths THEN a
                         ELSE IF ~existsSync(tree, rule.path)
                         THEN [a EXCEPT !.missing = Append(@,
                                 Drift(rule.path, <<owner>>, "missing", "required", <<>>))]
                         ELSE a,
                      afterFiles, feature.fileRules)

\* status.ts 172-196.
finishProjectStatus(project, orderedFeatures, ownership, drift, mergeDrift) ==
    IF drift.threw \/ mergeDrift.threw THEN Threw
    ELSE [threw |-> FALSE, name |-> project.name,
          features |-> MapSeq(featureKey, orderedFeatures),
          conflicts |-> ownership \o mergeDrift.conflicts,
          missing |-> drift.missing \o mergeDrift.missing,
          mismatches |-> drift.mismatches \o mergeDrift.mismatches,
          ok |-> ownership \o mergeDrift.conflicts = <<>>
                 /\ drift.missing \o mergeDrift.missing = <<>>
                 /\ drift.mismatches \o mergeDrift.mismatches = <<>>]

\* status.ts 122-180: the features in order, then the merge files.
statusWithOwnership(project, orderedFeatures, ownership, features, tree) ==
    finishProjectStatus(project, orderedFeatures, ownership,
        FoldLeft(LAMBDA a, feature :
                    statusFeature(a, feature, conflictPathsOf(ownership), tree, features),
                 [threw |-> FALSE, missing |-> <<>>, mismatches |-> <<>>],
                 orderedFeatures),
        detectJsonMergeDrift(orderedFeatures, conflictPathsOf(ownership), tree))

statusOrdered(project, orderedFeatures, features, tree) ==
    statusWithOwnership(project, orderedFeatures,
                        statusDetectOwnershipConflicts(orderedFeatures), features, tree)

buildProjectStatus(project, features, tree) ==
    IF ~project.pathOk THEN Threw
    ELSE IF \E i \in DOMAIN project.features : ~FeatureFound(features, project.features[i])
    THEN Threw
    ELSE statusOrdered(project, resolveProjectFeatures(project, features), features, tree)

NoStatus == [threw |-> FALSE, projects |-> <<>>, hasDrift |-> FALSE,
             hasConflicts |-> FALSE, made |-> FALSE]

statusReportOf(projectStatuses) ==
    IF \E i \in DOMAIN projectStatuses : projectStatuses[i].threw
    THEN [threw |-> TRUE, projects |-> <<>>, hasDrift |-> FALSE,
          hasConflicts |-> FALSE, made |-> TRUE]
    ELSE [threw |-> FALSE, projects |-> projectStatuses,
          hasDrift |-> \E i \in DOMAIN projectStatuses :
                          projectStatuses[i].missing # <<>>
                          \/ projectStatuses[i].mismatches # <<>>,
          hasConflicts |-> \E i \in DOMAIN projectStatuses :
                              projectStatuses[i].conflicts # <<>>,
          made |-> TRUE]

collectStatusReport(projs, features, trees) ==
    statusReportOf(MapSeq(LAMBDA project :
                             buildProjectStatus(project, features, trees[project.name]),
                          projs))

(***************************************************************************)
(* The configurations and trees the runs start from.                       *)
(***************************************************************************)
X == Text("x")
Y == Text("y")
Z == Text("z")

A1 == JKey("a", JStr("1"))
A2 == JKey("a", JStr("2"))
B1 == JKey("b", JStr("1"))

ProjectNames == {"app", "lib"}

Tree(p, q, j) == [path \in Paths |-> IF path = "p" THEN p ELSE IF path = "q" THEN q ELSE j]

EmptyTree == Tree(NoFile, NoFile, NoFile)

Feature(domain, version, files, templateFiles, fileRules, changes, templates, fileMergeJson) ==
    [domain |-> domain, version |-> version, files |-> files,
     templateFiles |-> templateFiles, fileRules |-> fileRules, changes |-> changes,
     templates |-> templates, fileMergeJson |-> fileMergeJson]

Project(name, pathOk, keys) == [name |-> name, pathOk |-> pathOk, features |-> keys]

Key(domain, version) == [domain |-> domain, version |-> version]

World(fs, ps, d, strategy, tool) ==
    [features |-> fs, projects |-> ps, disk |-> d, mergeStrategy |-> strategy,
     mergeTool |-> tool]

OneTree(tree) == [n \in ProjectNames |-> IF n = "app" THEN tree ELSE EmptyTree]

\* Versions: lint exists at 10.0.0, 2.0.0 and 9.0.0 (the order readdir lists
\* them in); each version leaves p alone or owns it with template x or y.
VersionOptions == {"none", "x", "y"}

VersionFeature(version, opt) ==
    Feature("lint", version, IF opt = "none" THEN <<>> ELSE <<"p">>, <<>>, <<>>, <<>>,
            Tree(IF opt = "x" THEN X ELSE IF opt = "y" THEN Y ELSE NoFile, NoFile, NoFile),
            <<>>)

VersionWorlds ==
    { World(<<VersionFeature(V10, o10), VersionFeature(V2, o2), VersionFeature(V9, o9)>>,
            <<Project("app", TRUE, <<Key("lint", declared)>>)>>,
            OneTree(Tree(p, NoFile, NoFile)), strategy, tool) :
        o10 \in VersionOptions, o2 \in VersionOptions, o9 \in VersionOptions,
        declared \in {V2, V9, V10}, p \in {NoFile, X, Y, Z},
        strategy \in MergeStrategies, tool \in Tools }

\* Layout: lint@2.0.0 and ci@1.0.0 claim p and q in several ways; lint
\* brings a rename and deletes.
LintClaims == {"none", "files", "templateFiles", "rule", "filesRule"}
CiClaims == {"none", "files", "rule"}

Rule(path) == [path |-> path, require |-> "exists"]

LayoutLint(kp, kq, rename, deletes) ==
    Feature("lint", V2,
            (IF kp \in {"files", "filesRule"} THEN <<"p">> ELSE <<>>)
              \o (IF kq THEN <<"q">> ELSE <<>>),
            IF kp = "templateFiles" THEN <<"p">> ELSE <<>>,
            IF kp \in {"rule", "filesRule"} THEN <<Rule("p")>> ELSE <<>>,
            <<[version |-> V9, renames |-> <<>>, deletes |-> <<"p", "q">>],
              [version |-> V2,
               renames |-> IF rename THEN <<[from |-> "p", to |-> "q"]>> ELSE <<>>,
               deletes |-> deletes]>>,
            Tree(X, X, NoFile), <<>>)

LayoutCi(kp, kq) ==
    Feature("ci", V1,
            (IF kp = "files" THEN <<"p">> ELSE <<>>) \o (IF kq THEN <<"q">> ELSE <<>>),
            <<>>,
            IF kp = "rule" THEN <<Rule("p")>> ELSE <<>>,
            <<>>, Tree(Y, Y, NoFile), <<>>)

LayoutWorlds ==
    { World(<<LayoutCi(cp, cq), LayoutLint(lp, lq, rename, deletes)>>,
            <<Project("app", TRUE, order)>>,
            OneTree(Tree(p, q, NoFile)), "none", "merged") :
        lp \in LintClaims, lq \in BOOLEAN, cp \in CiClaims, cq \in BOOLEAN,
        rename \in BOOLEAN, deletes \in {<<>>, <<"p">>, <<"q">>},
        order \in {<<Key("lint", V2), Key("ci", V1)>>, <<Key("ci", V1), Key("lint", V2)>>},
        p \in {NoFile, X, Y}, q \in {NoFile, X, Y} }

\* JSON merge: lint@2.0.0 contributes a fragment to j and may own j as a
\* template too; ci@1.0.0 contributes a fragment, owns j, or leaves it.
JsonLint(fragment, owns) ==
    Feature("lint", V2, IF owns THEN <<"j">> ELSE <<>>, <<>>, <<>>, <<>>,
            Tree(NoFile, NoFile, Pretty(fragment)), <<"j">>)

JsonCi(fragment, mode) ==
    Feature("ci", V1, IF mode = "files" THEN <<"j">> ELSE <<>>, <<>>, <<>>, <<>>,
            Tree(NoFile, NoFile, Pretty(fragment)),
            IF mode = "merge" THEN <<"j">> ELSE <<>>)

JsonFiles ==
    { NoFile, Text(""), X, Pretty(A1), Compact(A1), Pretty(A2),
      Pretty(JKeys2("a", JStr("1"), "b", JStr("1"))), Pretty(JArr(<<JStr("1")>>)),
      Pretty(JEmpty) }

JsonWorlds ==
    { World(<<JsonCi(cf, mode), JsonLint(lf, owns)>>,
            <<Project("app", TRUE, <<Key("lint", V2), Key("ci", V1)>>)>>,
            OneTree(Tree(NoFile, NoFile, j)), "none", "merged") :
        lf \in {A1, A2}, owns \in BOOLEAN, cf \in {A1, B1},
        mode \in {"none", "merge", "files"}, j \in JsonFiles }

\* Two projects on lint@2.0.0, which owns p and requires q.
PairLint == Feature("lint", V2, <<"p">>, <<>>, <<Rule("q")>>, <<>>, Tree(X, NoFile, NoFile), <<>>)

PairWorlds ==
    { World(<<PairLint>>,
            <<Project("app", TRUE, <<Key("lint", V2)>>),
              Project("lib", TRUE, <<Key("lint", V2)>>)>>,
            [n \in ProjectNames |-> IF n = "app" THEN Tree(p1, q1, NoFile)
                                                 ELSE Tree(p2, q2, NoFile)],
            "none", "merged") :
        p1 \in {NoFile, X, Y}, q1 \in {NoFile, X}, p2 \in {NoFile, X, Y}, q2 \in {NoFile, X} }

\* Broken configurations: a project path that is no directory, a feature
\* no definition exists for, a template file that is missing.
BrokenWorlds ==
    { World(<<PairLint>>, <<Project("app", FALSE, <<Key("lint", V2)>>)>>,
            OneTree(EmptyTree), "none", "merged"),
      World(<<PairLint>>, <<Project("app", TRUE, <<Key("lint", V9)>>)>>,
            OneTree(EmptyTree), "none", "merged"),
      World(<<Feature("lint", V2, <<"p">>, <<>>, <<>>, <<>>, EmptyTree, <<>>)>>,
            <<Project("app", TRUE, <<Key("lint", V2)>>)>>,
            OneTree(EmptyTree), "none", "merged") }

\* Migrations: lint carries a change history over two versions (a rename
\* and its way back, a chain of two renames, a delete followed by a rename);
\* ci@1.0.0 may rename p as well.  Neither owns a template.
Change(version, renames, deletes) ==
    [version |-> version, renames |-> renames, deletes |-> deletes]

MigrationHistories ==
    { <<Change(V2, <<[from |-> "p", to |-> "q"]>>, <<>>),
        Change(V9, <<[from |-> "q", to |-> "p"]>>, <<>>)>>,
      <<Change(V2, <<[from |-> "p", to |-> "q"]>>, <<>>),
        Change(V9, <<[from |-> "q", to |-> "j"]>>, <<>>)>>,
      <<Change(V2, <<>>, <<"p">>),
        Change(V9, <<[from |-> "p", to |-> "q"]>>, <<>>)>> }

MigrationLint(version, history) ==
    Feature("lint", version, <<>>, <<>>, <<>>, history, EmptyTree, <<>>)

MigrationCi(target) ==
    Feature("ci", V1, <<>>, <<>>, <<>>,
            IF target = "" THEN <<>>
            ELSE <<Change(V1, <<[from |-> "p", to |-> target]>>, <<>>)>>,
            EmptyTree, <<>>)

MigrationWorlds ==
    { World(<<MigrationLint(declared, history), MigrationCi(target)>>,
            <<Project("app", TRUE, <<Key("lint", declared), Key("ci", V1)>>)>>,
            OneTree(Tree(p, q, j)), "none", "merged") :
        declared \in {V2, V9}, history \in MigrationHistories, target \in {"", "q", "j"},
        p \in {NoFile, X}, q \in {NoFile, Y}, j \in {NoFile, Z} }

Worlds ==
    VersionWorlds \cup LayoutWorlds \cup JsonWorlds \cup PairWorlds \cup BrokenWorlds
      \cup MigrationWorlds

(***************************************************************************)
(* Spec: status, sync and sync --apply over the project trees.             *)
(***************************************************************************)
MaxRuns == 2

Idle == [state |-> "idle", proj |-> 0, loop |-> "", idx |-> 0]
Done == [state |-> "done", proj |-> 0, loop |-> "", idx |-> 0]
Crashed == [state |-> "crashed", proj |-> 0, loop |-> "", idx |-> 0]

MergeIdle ==
    /\ base = JEmpty
    /\ fragments = <<>>
    /\ merged = JEmpty
    /\ sources = NoKeys
    /\ conflicts = <<>>

NotRendered == [state |-> "none", content |-> <<>>, key |-> <<>>]

RenderIdle ==
    /\ templateText = <<>>
    /\ templateVars = [k \in {} |-> <<>>]
    /\ ignoredVariables = {}
    /\ rendered = NotRendered

TargetPaths == {"p", "q"}

Absent == [exists |-> FALSE, text |-> <<>>]
Present(text) == [exists |-> TRUE, text |-> text]

NotApplied == [state |-> "none", message |-> "", tree |-> <<>>, file |-> <<>>]

NotCompared == [state |-> "none"]

NotResolved == [state |-> "none", renames |-> <<>>, deletes |-> <<>>]

ChangesIdle ==
    /\ changeFeature = [version |-> <<>>, changes |-> <<>>]
    /\ changeResult = NotResolved

ApplyIdle ==
    /\ templateDef = [files |-> <<>>, sources |-> [path \in TargetPaths |-> Absent]]
    /\ projectTree = [path \in TargetPaths |-> Absent]
    /\ projectFile = [exists |-> FALSE, templates |-> <<>>]
    /\ applied = NotApplied
    /\ semverInput = <<>>
    /\ semverResult = NotCompared
    /\ ChangesIdle

SyncIdle ==
    /\ featureDefs = <<>>
    /\ projectDefs = <<>>
    /\ disk = [n \in ProjectNames |-> EmptyTree]
    /\ mergeOption = "none"
    /\ mergeTool = "merged"
    /\ status = NoStatus
    /\ report = NoReport
    /\ planDisk = [n \in ProjectNames |-> EmptyTree]
    /\ applyPc = Idle
    /\ fsLog = <<>>
    /\ runs = 0

Init ==
    /\ MergeIdle
    /\ RenderIdle
    /\ ApplyIdle
    /\ \E w \in Worlds :
          /\ featureDefs = w.features
          /\ projectDefs = w.projects
          /\ disk = w.disk
          /\ mergeOption = w.mergeStrategy
          /\ mergeTool = w.mergeTool
    /\ status = NoStatus
    /\ report = NoReport
    /\ planDisk = disk
    /\ applyPc = Idle
    /\ fsLog = <<>>
    /\ runs = 0

\* cookie-manager status
Status ==
    /\ applyPc.state # "run"
    /\ ~status.made
    /\ status' = collectStatusReport(projectDefs, featureDefs, disk)
    /\ UNCHANGED <<mergeVars, renderVars, applyVars, configVars, disk, report, planDisk, applyPc, fsLog, runs>>

\* cookie-manager sync: collectSyncReport
SyncCollect ==
    /\ applyPc.state # "run"
    /\ runs < MaxRuns
    /\ report' = collectSyncReport(projectDefs, featureDefs, disk, mergeOption, mergeTool)
    /\ planDisk' = disk
    /\ applyPc' = Idle
    /\ fsLog' = <<>>
    /\ runs' = runs + 1
    /\ UNCHANGED <<mergeVars, renderVars, applyVars, configVars, disk, status>>

\* A test that lets every project through.
hasErrorsNever(project) == FALSE

\* applySyncReport line 101: the project is passed over.
hasErrors(project) == Len(project.errors) > 0

\* An order in which the writes come first.
loopOrderWritesFirst == <<"write", "rename", "delete">>

\* applyProjectActions runs its three loops in this order.
loopOrder == <<"rename", "delete", "write">>

LoopIndex(loop) == CHOOSE i \in DOMAIN loopOrder : loopOrder[i] = loop

NextProject(pc) ==
    IF pc.proj < Len(report.projects)
    THEN [state |-> "run", proj |-> pc.proj + 1, loop |-> "", idx |-> 0]
    ELSE Done

\* The position after iteration pc.idx of loop pc.loop over n actions.
NextPosition(pc, n) ==
    IF pc.idx < n THEN [pc EXCEPT !.idx = @ + 1]
    ELSE IF LoopIndex(pc.loop) < Len(loopOrder)
    THEN [pc EXCEPT !.loop = loopOrder[LoopIndex(pc.loop) + 1], !.idx = 1]
    ELSE NextProject(pc)

\* sync --apply: applySyncReport is entered with the report just collected.
ApplyBegin ==
    /\ applyPc.state = "idle"
    /\ report.made /\ ~report.threw
    /\ applyPc' = NextProject(Idle)
    /\ UNCHANGED <<mergeVars, renderVars, applyVars, configVars, disk, status, report, planDisk, fsLog, runs>>

\* The head of the loop of applySyncReport: skip the project, or enter
\* applyProjectActions.
ApplyProject ==
    /\ applyPc.state = "run" /\ applyPc.loop = ""
    /\ LET project == report.projects[applyPc.proj]
       IN  applyPc' = IF hasErrors(project) \/ project.actions = <<>>
                      THEN NextProject(applyPc)
                      ELSE [applyPc EXCEPT !.loop = loopOrder[1], !.idx = 1]
    /\ UNCHANGED <<mergeVars, renderVars, applyVars, configVars, disk, status, report, planDisk, fsLog, runs>>

FsOp(project, op, path, to) == [project |-> project, op |-> op, path |-> path, to |-> to]

\* One iteration of the rename loop: renameSync throws when the source is
\* gone, and replaces the target when there is one.
ApplyRename ==
    /\ applyPc.state = "run" /\ applyPc.loop = "rename"
    /\ LET project == report.projects[applyPc.proj]
           action == project.actions[applyPc.idx]
           tree == disk[project.name]
       IN  IF action.kind # "rename"
           THEN /\ applyPc' = NextPosition(applyPc, Len(project.actions))
                /\ UNCHANGED <<disk, status, fsLog>>
           ELSE IF ~existsSync(tree, action.from)
           THEN /\ applyPc' = Crashed
                /\ UNCHANGED <<disk, status, fsLog>>
           ELSE /\ applyPc' = NextPosition(applyPc, Len(project.actions))
                /\ disk' = [disk EXCEPT ![project.name] =
                              [tree EXCEPT ![action.to] = tree[action.from],
                                           ![action.from] = NoFile]]
                /\ fsLog' = Append(fsLog, FsOp(project.name, "rename", action.from,
                                               action.to))
                /\ status' = NoStatus
    /\ UNCHANGED <<mergeVars, renderVars, applyVars, configVars, report, planDisk, runs>>

\* One iteration of the delete loop: rmSync with force.
ApplyDelete ==
    /\ applyPc.state = "run" /\ applyPc.loop = "delete"
    /\ LET project == report.projects[applyPc.proj]
           action == project.actions[applyPc.idx]
       IN  /\ applyPc' = NextPosition(applyPc, Len(project.actions))
           /\ IF action.kind # "delete"
              THEN UNCHANGED <<disk, status, fsLog>>
              ELSE /\ disk' = [disk EXCEPT ![project.name][action.path] = NoFile]
                   /\ fsLog' = Append(fsLog, FsOp(project.name, "delete", action.path, ""))
                   /\ status' = NoStatus
    /\ UNCHANGED <<mergeVars, renderVars, applyVars, configVars, report, planDisk, runs>>

\* One iteration of the write loop: writeFileSync.
ApplyWrite ==
    /\ applyPc.state = "run" /\ applyPc.loop = "write"
    /\ LET project == report.projects[applyPc.proj]
           action == project.actions[applyPc.idx]
       IN  /\ applyPc' = NextPosition(applyPc, Len(project.actions))
           /\ IF action.kind # "write"
              THEN UNCHANGED <<disk, status, fsLog>>
              ELSE /\ disk' = [disk EXCEPT ![project.name][action.path] = action.content]
                   /\ fsLog' = Append(fsLog, FsOp(project.name, "write", action.path, ""))
                   /\ status' = NoStatus
    /\ UNCHANGED <<mergeVars, renderVars, applyVars, configVars, report, planDisk, runs>>

Next ==
    \/ Status
    \/ SyncCollect
    \/ ApplyBegin
    \/ ApplyProject
    \/ ApplyRename
    \/ ApplyDelete
    \/ ApplyWrite

Spec == Init /\ [][Next]_vars

(***************************************************************************)
(* Properties of Spec.                                                     *)
(***************************************************************************)
WritesOf(actions) == SelectSeq(actions, LAMBDA a : a.kind = "write")
RenamesOf(actions) == SelectSeq(actions, LAMBDA a : a.kind = "rename")
DeletesOf(actions) == SelectSeq(actions, LAMBDA a : a.kind = "delete")
LogOf(name, op) == SelectSeq(fsLog, LAMBDA e : e.project = name /\ e.op = op)
PathsIn(list) == {list[n].path : n \in DOMAIN list}
OwnershipIn(cfl) == SelectSeq(cfl, LAMBDA c : c.type = "ownership")
Declared(key) == FindFeature(featureDefs, key)[1]

\* C1: a project report with errors has no file operation made in its tree,
\* which stays as collectSyncReport read it; only projects without errors
\* have operations in the log.
C1_ErrorsBlockApply ==
    \A i \in DOMAIN report.projects :
      LET project == report.projects[i]
      IN  project.errors # <<>> =>
            /\ \A k \in DOMAIN fsLog : fsLog[k].project # project.name
            /\ disk[project.name] = planDisk[project.name]

\* applySyncReport has finished; one project had errors and planned
\* actions, another had none and was applied.
C1_Witness ==
    /\ applyPc.state = "done"
    /\ \E i \in DOMAIN report.projects :
          report.projects[i].errors # <<>> /\ report.projects[i].actions # <<>>
    /\ \E j \in DOMAIN report.projects :
          /\ report.projects[j].errors = <<>>
          /\ \E k \in DOMAIN fsLog : fsLog[k].project = report.projects[j].name

OpRank(op) == CASE op = "rename" -> 1 [] op = "delete" -> 2 [] op = "write" -> 3

\* C2: within a project the log never shows a rename after a delete or a
\* write, nor a delete after a write; when the first delete is made every
\* rename of the plan has been made, and when the first write is made every
\* rename and every delete of the plan has been made.
C2_RenamesThenDeletesThenWrites ==
    /\ \A k, l \in DOMAIN fsLog :
          (k < l /\ fsLog[k].project = fsLog[l].project)
            => OpRank(fsLog[k].op) <= OpRank(fsLog[l].op)
    /\ \A i \in DOMAIN report.projects :
          LET project == report.projects[i]
              renamed == Len(LogOf(project.name, "rename")) = Len(RenamesOf(project.actions))
              deleted == Len(LogOf(project.name, "delete")) = Len(DeletesOf(project.actions))
          IN  /\ LogOf(project.name, "delete") # <<>> => renamed
              /\ LogOf(project.name, "write") # <<>> => renamed /\ deleted

\* A plan lists a write ahead of a rename and ahead of nothing else; it was
\* applied: the rename was made first, the write after it.
C2_Witness ==
    /\ applyPc.state = "done"
    /\ \E i \in DOMAIN report.projects :
          LET project == report.projects[i]
          IN  /\ \E k, l \in DOMAIN project.actions :
                    k < l /\ project.actions[k].kind = "write"
                    /\ project.actions[l].kind = "rename"
              /\ \E k, l \in DOMAIN fsLog :
                    k < l /\ fsLog[k].project = project.name /\ fsLog[k].op = "rename"
                    /\ fsLog[l].project = project.name /\ fsLog[l].op = "write"

CollisionMessages ==
    {"Multiple writes planned", "Write collides with rename", "Multiple renames target",
     "Rename target collides with write"}

\* C3: in every plan that validation added no collision error to, no path
\* is both the target of a write and the source or target of a rename, and
\* no path is the target of two writes.
C3_ValidatedPlanHasNoCollision ==
    \A i \in DOMAIN report.projects :
      LET project == report.projects[i]
          writes == WritesOf(project.actions)
          renames == RenamesOf(project.actions)
      IN  (\A n \in DOMAIN project.errors : project.errors[n].msg \notin CollisionMessages)
            => /\ \A w \in DOMAIN writes : \A r \in DOMAIN renames :
                     writes[w].path # renames[r].from /\ writes[w].path # renames[r].to
               /\ \A v, w \in DOMAIN writes : v # w => writes[v].path # writes[w].path

Claims(feature, path) ==
    \/ Includes(feature.files, path)
    \/ Includes(feature.templateFiles, path)
    \/ \E n \in DOMAIN feature.fileRules : feature.fileRules[n].path = path

\* The features of project i that claim the path, in declaration order.
Claimers(i, path) ==
    SelectSeq(projectDefs[i].features, LAMBDA key : Claims(Declared(key), path))

\* C4: the plan of a project holds an ownership conflict for a path exactly
\* when two or more of its features claim the path, one conflict for the
\* path, whose owners are the claiming features, each once, in declaration
\* order.
C4_OwnershipConflictsAreTheSharedPaths ==
    \A i \in DOMAIN report.projects :
      \A path \in Paths :
        LET reported == SelectSeq(OwnershipIn(report.projects[i].conflicts),
                                  LAMBDA c : c.path = path)
        IN  IF Len(Claimers(i, path)) >= 2
            THEN Len(reported) = 1 /\ reported[1].owners = Claimers(i, path)
            ELSE reported = <<>>

\* C5: a path in ownership conflict is in neither list of the status of the
\* project, and no planned action of the project writes it, deletes it,
\* renames it or renames to it.
C5_ConflictPathsAreLeftAlone ==
    /\ \A i \in DOMAIN status.projects :
          LET project == status.projects[i]
          IN  PathsIn(OwnershipIn(project.conflicts))
                \cap (PathsIn(project.missing) \cup PathsIn(project.mismatches)) = {}
    /\ \A i \in DOMAIN report.projects :
          LET project == report.projects[i]
          IN  \A n \in DOMAIN project.actions :
                {project.actions[n].path, project.actions[n].from, project.actions[n].to}
                  \cap PathsIn(OwnershipIn(project.conflicts)) = {}

\* C6: for every merge that reported a conflict the plan holds one conflict
\* of type merge for the path, and: under none an error for the path and no
\* write of it; under markers a write of the tool's output and no error;
\* under keep-local no write and no error; under overwrite a write of the
\* declared version's template and no error.
C6_ConflictFollowsStrategy ==
    \A i \in DOMAIN report.projects :
      LET project == report.projects[i]
      IN  \A n \in DOMAIN project.calls :
            LET call == project.calls[n]
                merges == SelectSeq(project.conflicts,
                                    LAMBDA c : c.type = "merge" /\ c.path = call.path)
                writes == SelectSeq(WritesOf(project.actions),
                                    LAMBDA a : a.path = call.path)
                failed == \E e \in DOMAIN project.errors :
                             project.errors[e].path = call.path
            IN  call.conflict =>
                  /\ Len(merges) = 1
                  /\ mergeOption = "none" => failed /\ writes = <<>>
                  /\ mergeOption = "markers" =>
                        ~failed /\ Len(writes) = 1 /\ writes[1].content = call.content
                  /\ mergeOption = "keep-local" => ~failed /\ writes = <<>>
                  /\ mergeOption = "overwrite" =>
                        /\ ~failed
                        /\ Len(writes) = 1
                        /\ writes[1].content
                             = Declared(merges[1].owners[1]).templates[call.path]

\* Under markers a merge conflicted and the marker text is planned.
C6_Witness ==
    /\ mergeOption = "markers"
    /\ \E i \in DOMAIN report.projects :
          /\ \E n \in DOMAIN report.projects[i].calls :
                report.projects[i].calls[n].conflict
          /\ \E a \in DOMAIN report.projects[i].actions :
                report.projects[i].actions[a].content = MarkerText

\* The versions by number, as semantic versions order them.
VersionNumber(version) ==
    CASE version = V1 -> 1 [] version = V2 -> 2 [] version = V9 -> 9 [] version = V10 -> 10

\* The features of the domain that define the path.
Defining(domain, path) ==
    {n \in DOMAIN featureDefs :
        featureDefs[n].domain = domain /\ Includes(featureDefs[n].files, path)}

Lowest(S) == CHOOSE n \in S : \A m \in S :
                VersionNumber(featureDefs[n].version) <= VersionNumber(featureDefs[m].version)

Greatest(S) == CHOOSE n \in S : \A m \in S :
                VersionNumber(featureDefs[n].version) >= VersionNumber(featureDefs[m].version)

Older(owner, path) ==
    {n \in Defining(owner.domain, path) :
        VersionNumber(featureDefs[n].version) < VersionNumber(owner.version)}

ExpectedBase(lookup) ==
    IF lookup.version # NoVersion THEN lookup.version
    ELSE IF Older(lookup.owner, lookup.path) = {} THEN NoVersion
    ELSE featureDefs[Greatest(Older(lookup.owner, lookup.path))].version

\* The merge paths of the features of project i.
MergePathsOf(i) ==
    UNION {Range(Declared(projectDefs[i].features[k]).fileMergeJson) :
             k \in DOMAIN projectDefs[i].features}

\* C7: every owned template path whose file differs from the declared
\* template is looked up, and then merged once from the matched version if
\* there is one, else from the greatest strictly older version of the
\* domain that defines the path; when there is neither, nothing is merged
\* and a write of the declared template is planned.
C7_MergeBase ==
    \A i \in DOMAIN report.projects :
      LET project == report.projects[i]
      IN  /\ \A k \in DOMAIN projectDefs[i].features :
                LET feature == Declared(projectDefs[i].features[k])
                    content == planDisk[project.name]
                IN  \A path \in Range(feature.files) :
                      ( /\ path \notin PathsIn(OwnershipIn(project.conflicts))
                        /\ path \notin MergePathsOf(i)
                        /\ content[path] # NoFile
                        /\ content[path] # feature.templates[path] )
                      => \E l \in DOMAIN project.lookups :
                            /\ project.lookups[l].path = path
                            /\ project.lookups[l].owner = featureKey(feature)
                            /\ project.lookups[l].content = content[path]
          /\ \A l \in DOMAIN project.lookups :
                LET lookup == project.lookups[l]
                    made == SelectSeq(project.calls, LAMBDA c : c.path = lookup.path)
                    template == Declared(lookup.owner).templates[lookup.path]
                IN  IF ExpectedBase(lookup) # NoVersion
                    THEN /\ Len(made) = 1
                         /\ made[1].base = ExpectedBase(lookup)
                         /\ made[1].local = lookup.content
                         /\ made[1].remote = template
                    ELSE /\ made = <<>>
                         /\ \E a \in DOMAIN project.actions :
                               /\ project.actions[a].kind = "write"
                               /\ project.actions[a].path = lookup.path
                               /\ project.actions[a].content = template

\* No version matches the file, 2.0.0 and 9.0.0 are older than the declared
\* 10.0.0 and define the path: the merge starts from 9.0.0.
C7_Witness ==
    \E i \in DOMAIN report.projects :
      \E l \in DOMAIN report.projects[i].lookups :
        LET lookup == report.projects[i].lookups[l]
        IN  /\ lookup.version = NoVersion
            /\ lookup.owner.version = V10
            /\ Cardinality(Older(lookup.owner, lookup.path)) = 2
            /\ \E c \in DOMAIN report.projects[i].calls :
                  report.projects[i].calls[c].base = V9

\* The other versions of the owner's domain that define the path with
\* exactly this content.
Matching(owner, path, content) ==
    {n \in Defining(owner.domain, path) :
        /\ featureDefs[n].version # owner.version
        /\ featureDefs[n].templates[path] = content}

ExpectedMatch(owner, path, content) ==
    IF Matching(owner, path, content) = {} THEN NoVersion
    ELSE featureDefs[Lowest(Matching(owner, path, content))].version

\* C8: each version lookup of sync, and each template mismatch of status,
\* carries the lowest other version of the domain that defines the path
\* with exactly the file's content, or none when there is no such version;
\* it never carries the declared version.
C8_LowestMatchingVersion ==
    /\ \A i \in DOMAIN report.projects :
          \A l \in DOMAIN report.projects[i].lookups :
            LET lookup == report.projects[i].lookups[l]
            IN  /\ lookup.version = ExpectedMatch(lookup.owner, lookup.path, lookup.content)
                /\ lookup.version # lookup.owner.version
    /\ \A i \in DOMAIN status.projects :
          \A m \in DOMAIN status.projects[i].mismatches :
            LET mismatch == status.projects[i].mismatches[m]
                owner == mismatch.feature[1]
                expected == ExpectedMatch(owner, mismatch.path,
                                          disk[status.projects[i].name][mismatch.path])
            IN  mismatch.detail = "" =>
                  /\ mismatch.matches = IF expected = NoVersion THEN <<>>
                                        ELSE <<Key(owner.domain, expected)>>
                  /\ mismatch.matches # <<owner>>

\* 9.0.0 and 10.0.0 both hold the file's content; sync and status name 9.0.0.
C8_Witness ==
    /\ \E i \in DOMAIN report.projects :
          \E l \in DOMAIN report.projects[i].lookups :
            LET lookup == report.projects[i].lookups[l]
            IN  /\ lookup.version = V9
                /\ Cardinality(Matching(lookup.owner, lookup.path, lookup.content)) = 2
    /\ \E i \in DOMAIN status.projects :
          \E m \in DOMAIN status.projects[i].mismatches :
            status.projects[i].mismatches[m].matches = <<Key("lint", V9)>>

\* What C9 says, of the owned template paths of project i outside `excluded`.
TemplateDriftListed(i, excluded) ==
    LET project == status.projects[i]
        tree == disk[project.name]
    IN  \A k \in DOMAIN projectDefs[i].features :
          LET feature == Declared(projectDefs[i].features[k])
          IN  \A path \in Range(feature.files) \ excluded :
                path \notin PathsIn(OwnershipIn(project.conflicts)) =>
                  /\ path \in PathsIn(project.missing) <=> tree[path] = NoFile
                  /\ path \in PathsIn(project.mismatches)
                       <=> (tree[path] # NoFile /\ tree[path] # feature.templates[path])
                  /\ ~(path \in PathsIn(project.missing)
                        /\ path \in PathsIn(project.mismatches))

RenameChain(feature) == resolveFeatureChanges(feature).renames

\* Feature `key` of project i migrates a file it owns: its rename chain maps
\* a path that is on disk to a path of its files list that is not.
Migrates(i, key) ==
    \E n \in DOMAIN RenameChain(Declared(key)) :
        LET r == RenameChain(Declared(key))[n]
            tree == planDisk[projectDefs[i].name]
        IN  /\ Includes(Declared(key).files, r.to)
            /\ existsSync(tree, r.from)
            /\ ~existsSync(tree, r.to)

\* C16: when a feature of the project renames old to new, new being one of
\* its template files, old is on disk and new is not, and the project has no
\* ownership conflict, the plan of the project has no errors.
C16_OwnedRenameTargetPlansCleanly ==
    \A i \in DOMAIN report.projects :
        (/\ OwnershipIn(report.projects[i].conflicts) = <<>>
         /\ \E k \in DOMAIN projectDefs[i].features : Migrates(i, projectDefs[i].features[k]))
          => report.projects[i].errors = <<>>

\* The step is a second planning, made after applySyncReport has applied the
\* plan in hand to the end.
Replanned == applyPc = Done /\ runs' = runs + 1 /\ ~report'.threw

\* C17: when a plan without errors and without conflicts has been applied,
\* planning again over the resulting tree gives the project an empty action
\* list.
C17_SyncConverges ==
    [][Replanned =>
         \A i \in DOMAIN report.projects :
            (report.projects[i].errors = <<>> /\ report.projects[i].conflicts = <<>>)
              => report'.projects[i].actions = <<>>]_vars

\* The file of an owned template path differs from the declared template
\* and a base for a three-way merge exists: the merge tool is run for it.
NeedsMerge(i, owner, path) ==
    LET content == planDisk[projectDefs[i].name][path]
    IN  /\ Includes(Declared(owner).files, path)
        /\ path \notin MergePathsOf(i)
        /\ Len(Claimers(i, path)) = 1
        /\ content # NoFile
        /\ content # Declared(owner).templates[path]
        /\ ExpectedBase([path |-> path, owner |-> owner, content |-> content,
                         version |-> ExpectedMatch(owner, path, content)]) # NoVersion

\* C19: when the merge tool fails for a file, planning still ends with a
\* report holding every project, and the project of the file has an error
\* for that path which is not the merge-conflict error, and no merge conflict
\* for it.
C19_MergeToolFailureIsAPathError ==
    (report.made /\ mergeTool = "fail") =>
        \A i \in DOMAIN projectDefs : \A k \in DOMAIN projectDefs[i].features :
            \A path \in Paths :
                NeedsMerge(i, projectDefs[i].features[k], path) =>
                    /\ ~report.threw
                    /\ Len(report.projects) = Len(projectDefs)
                    /\ \E n \in DOMAIN report.projects[i].errors :
                          /\ report.projects[i].errors[n].path = path
                          /\ report.projects[i].errors[n].msg # "Merge conflict detected"
                    /\ \A c \in DOMAIN report.projects[i].conflicts :
                          report.projects[i].conflicts[c].path # path

\* Action e of the plan touches the path: it writes it, or renames it or
\* renames to it.
Touches(action, path) ==
    \/ action.kind = "write" /\ action.path = path
    \/ action.kind = "rename" /\ (action.from = path \/ action.to = path)

\* C20: no plan holds a delete of a path after a write of that path or a
\* rename from or to it.
C20_NoDeleteOfTouchedPath ==
    \A i \in DOMAIN report.projects :
        \A d \in DOMAIN report.projects[i].actions :
            report.projects[i].actions[d].kind = "delete" =>
                \A e \in 1..(d - 1) :
                    ~Touches(report.projects[i].actions[e],
                             report.projects[i].actions[d].path)

\* The entries of the resolved rename maps of the features of project i.
RenameEntries(i) ==
    UNION { Range(RenameChain(Declared(projectDefs[i].features[k]))) :
              k \in DOMAIN projectDefs[i].features }

Plans(i, action) == action \in Range(report.projects[i].actions)

\* C21: for each entry old -> new of a resolved rename map the plan holds the
\* rename exactly when old is on disk and new is not; when both are on disk
\* it holds a delete of old and no such rename; when old is absent it holds
\* neither a rename from old nor a delete of old.  Every planned rename comes
\* from such an entry, so none has a destination that is on disk.
C21_RenameOnlyOntoFreePath ==
    \A i \in DOMAIN report.projects :
      LET tree == planDisk[report.projects[i].name]
          actions == report.projects[i].actions
      IN  /\ \A n \in DOMAIN actions :
                actions[n].kind = "rename" =>
                    /\ [from |-> actions[n].from, to |-> actions[n].to] \in RenameEntries(i)
                    /\ tree[actions[n].from] # NoFile
                    /\ tree[actions[n].to] = NoFile
          /\ \A r \in RenameEntries(i) :
                /\ (tree[r.from] # NoFile /\ tree[r.to] = NoFile)
                      => Plans(i, RenameAction(r.from, r.to))
                /\ (tree[r.from] # NoFile /\ tree[r.to] # NoFile)
                      => (Plans(i, DeleteAction(r.from))
                          /\ ~Plans(i, RenameAction(r.from, r.to)))
                /\ tree[r.from] = NoFile
                      => (~Plans(i, DeleteAction(r.from))
                          /\ \A n \in DOMAIN actions :
                                ~(actions[n].kind = "rename" /\ actions[n].from = r.from))

\* Both ends of a rename entry are on disk and the plan deletes the old path.
C21_Witness ==
    /\ report.made /\ ~report.threw
    /\ \E i \in DOMAIN report.projects : \E r \in RenameEntries(i) :
          /\ planDisk[report.projects[i].name][r.from] # NoFile
          /\ planDisk[report.projects[i].name][r.to] # NoFile
          /\ r.from # r.to
          /\ Plans(i, DeleteAction(r.from))
          /\ report.projects[i].errors = <<>>


\* The resolved delete lists of the features of project i.
DeleteEntries(i) ==
    UNION { Range(resolveFeatureChanges(Declared(projectDefs[i].features[k])).deletes) :
              k \in DOMAIN projectDefs[i].features }

\* The path is where a rename chain of project i ends: some entry leads to
\* it and no entry leads from it to another path.
FinalDestination(i, path) ==
    /\ \E r \in RenameEntries(i) : r.to = path
    /\ \A r \in RenameEntries(i) : r.from = path => r.to = path

\* C22: no resolved rename map sends a path to itself, and no plan deletes
\* a path at which a rename chain of the project ends (unless a delete list
\* of the project names the path).
C22_NoRenameOntoItself ==
    \A i \in DOMAIN report.projects :
        /\ \A r \in RenameEntries(i) : r.from # r.to
        /\ \A path \in Paths :
              (FinalDestination(i, path) /\ path \notin DeleteEntries(i))
                => ~Plans(i, DeleteAction(path))

\* C23: in a plan without errors no path is the source of two rename
\* actions, and applySyncReport never meets a rename whose source is gone.
C23_OneRenamePerSource ==
    /\ \A i \in DOMAIN report.projects :
          report.projects[i].errors = <<>> =>
              \A m \in DOMAIN report.projects[i].actions :
                \A n \in DOMAIN report.projects[i].actions :
                    (/\ report.projects[i].actions[m].kind = "rename"
                     /\ report.projects[i].actions[n].kind = "rename"
                     /\ report.projects[i].actions[m].from
                          = report.projects[i].actions[n].from)
                      => m = n
    /\ applyPc # Crashed


\* Status and the plan in hand were both made from the trees as they are.
SameState ==
    /\ status.made /\ ~status.threw
    /\ report.made
    /\ planDisk = disk

\* C24: when status reports a project ok, the sync plan made from the same
\* trees has no actions and no errors for it.
C24_StatusOkMeansNothingToSync ==
    SameState =>
        \A i \in DOMAIN status.projects :
            status.projects[i].ok =>
                /\ ~report.threw
                /\ report.projects[i].actions = <<>>
                /\ report.projects[i].errors = <<>>


(***************************************************************************)
(* SpecMerge: one call of mergeJsonFragments(base, fragments).  The loop   *)
(* `for (const fragment of fragments)` takes one step per fragment; the    *)
(* list is an input, so each step may meet any fragment.                   *)
(***************************************************************************)
MaxFragments == 3

S1 == JStr("1")
S2 == JStr("2")

\* The objects bases and fragment values are drawn from.
JsonObjs ==
    { JEmpty,
      JKey("a", S1),
      JKey("a", S2),
      JKey("a", JArr(<<S1>>)),
      JKey("a", JArr(<<S2, S1>>)),
      JKey("a", JKey("b", S1)),
      JKey("a", JKey("b", S2)),
      JKey("a", JKey("a", JArr(<<S1>>))),
      JKeys2("a", JKey("a", S1), "b", S1),
      JKey("a.b", S2) }

\* The objects a run starts from: empty, a scalar, an array and an object at
\* a, two keys, and a dotted key.
BaseObjs ==
    { JEmpty,
      JKey("a", S1),
      JKey("a", JArr(<<S1>>)),
      JKey("a", JKey("b", S1)),
      JKeys2("a", JKey("a", S1), "b", S1),
      JKey("a.b", S2) }

Sources == {"lint@1.0.0", "ci@1.0.0"}

Fragments == [source : Sources, value : JsonObjs]

InitMerge ==
    /\ base \in BaseObjs
    /\ fragments = <<>>
    /\ merged = base
    /\ sources = NoKeys
    /\ conflicts = <<>>
    /\ SyncIdle
    /\ RenderIdle
    /\ ApplyIdle

MergeFragment ==
    /\ Len(fragments) < MaxFragments
    /\ \E fragment \in Fragments :
          LET st == mergeObject([target |-> merged, sources |-> sources,
                                 conflicts |-> conflicts],
                                fragment.value, fragment.source, <<>>)
          IN  /\ fragments' = Append(fragments, fragment)
              /\ merged' = st.target
              /\ sources' = st.sources
              /\ conflicts' = st.conflicts
    /\ UNCHANGED <<base, syncVars, renderVars, applyVars>>

NextMerge == MergeFragment

SpecMerge == InitMerge /\ [][NextMerge]_vars

(***************************************************************************)
(* Reading a merged object path by path.                                   *)
(***************************************************************************)
RECURSIVE ValueAt(_, _)
ValueAt(v, path) ==
    IF path = <<>> THEN v
    ELSE IF v.t = "object" THEN ValueAt(Get(v, Head(path)), Tail(path))
    ELSE Undefined

ObjKeys == {"a", "b"}
CheckedPaths == {<<k>> : k \in ObjKeys} \cup {<<k1, k2>> : k1 \in ObjKeys, k2 \in ObjKeys}

Defined(v) == v.t # "undefined"

\* Fragment i decides what is at path: it has a value there, or it has a
\* non-object value at a proper prefix (which replaces the whole subtree).
Decides(i, path) ==
    \/ Defined(ValueAt(fragments[i].value, path))
    \/ \E n \in 1..(Len(path) - 1) :
          LET v == ValueAt(fragments[i].value, SubSeq(path, 1, n))
          IN  Defined(v) /\ v.t # "object"

LastDeciding(path) ==
    LET T == {i \in 1..Len(fragments) : Decides(i, path)}
    IN  IF T = {} THEN 0 ELSE CHOOSE i \in T : \A j \in T : j <= i

\* C10: at every path the merged value is the one written by the last
\* fragment that wrote there: a non-object value (scalar, null or array)
\* sits there exactly as written, an object value leaves an object there
\* holding at least its keys, and a path that no fragment writes keeps the
\* value the base has there.
C10_LastWriteWins ==
    \A path \in CheckedPaths :
      LET i == LastDeciding(path)
          got == ValueAt(merged, path)
      IN  IF i = 0 THEN got = ValueAt(base, path)
          ELSE LET written == ValueAt(fragments[i].value, path)
               IN  IF written.t = "object"
                   THEN got.t = "object" /\ DOMAIN written.o \subseteq DOMAIN got.o
                   ELSE got = written

\* An array replaced an array of another length, and an object was merged
\* key by key into one that an earlier fragment wrote.
C10_Witness ==
    /\ Len(fragments) = 2
    /\ \/ /\ ValueAt(base, <<"a">>) = JArr(<<S1>>)
          /\ fragments[2].value = JKey("a", JArr(<<S2, S1>>))
          /\ ValueAt(merged, <<"a">>) = JArr(<<S2, S1>>)
       \/ /\ fragments[1].value = JKey("a", JKey("b", S1))
          /\ fragments[2].value = JKey("a", JKey("a", JArr(<<S1>>)))
          /\ DOMAIN ValueAt(merged, <<"a">>).o = {"a", "b"}

(***************************************************************************)
(* Conflicts of a merge, read against what each fragment wrote.            *)
(***************************************************************************)
\* Paths as lists of keys, dotted keys included.
KeyPaths == {<<k>> : k \in Keys} \cup {<<k1, k2>> : k1 \in Keys, k2 \in Keys}

Wrote(i, path) == Defined(ValueAt(fragments[i].value, path))

IsScalar(v) == v.t \in {"string", "null"}

\* The last fragment before j that decides what is at path, or 0.
LastDecidingBefore(j, path) ==
    LET T == {i \in 1..(j - 1) : Decides(i, path)}
    IN  IF T = {} THEN 0 ELSE CHOOSE i \in T : \A k \in T : k <= i

\* Conflict c stands for fragments i and j, of different sources, having
\* written unequal values at the same path.
Disagreement(c, i, j, path) ==
    /\ i < j
    /\ formatPath(path) = c.path
    /\ fragments[i].source = c.previousSource
    /\ fragments[j].source = c.nextSource
    /\ c.previousSource # c.nextSource
    /\ ValueAt(fragments[i].value, path) = c.previousValue
    /\ ValueAt(fragments[j].value, path) = c.nextValue
    /\ Defined(c.previousValue)
    /\ c.previousValue # c.nextValue

ConflictsFor(i, j, path) ==
    {n \in DOMAIN conflicts : Disagreement(conflicts[n], i, j, path)}

\* C11: every recorded conflict names a path at which two fragments of
\* different sources wrote structurally unequal values (so an equal rewrite,
\* an overwrite of a value only the base holds, or a write to a path no other
\* source writes records nothing); and two sources writing different scalars
\* to one path, the second directly after the first, give exactly one conflict
\* naming the path, the earlier source as previous and the later as next.
C11_ConflictsAreRealDisagreements ==
    /\ \A n \in DOMAIN conflicts :
          \E path \in KeyPaths : \E i \in DOMAIN fragments : \E j \in DOMAIN fragments :
              Disagreement(conflicts[n], i, j, path)
    /\ \A path \in KeyPaths : \A j \in DOMAIN fragments :
          LET i == LastDecidingBefore(j, path)
          IN  (/\ i # 0
               /\ fragments[i].source # fragments[j].source
               /\ IsScalar(ValueAt(fragments[i].value, path))
               /\ IsScalar(ValueAt(fragments[j].value, path))
               /\ ValueAt(fragments[i].value, path) # ValueAt(fragments[j].value, path))
              => Cardinality(ConflictsFor(i, j, path)) = 1

(***************************************************************************)
(* templates.ts: applyTemplateVars.  A content is a list of characters.    *)
(* The pattern is /\{\{([A-Za-z0-9_-]+)\}\}/g.                             *)
(***************************************************************************)
NameChars == {"A", "B", "t", "o", "S", "r", "i", "n", "g", "v", "w"}

Chars(str) == [i \in DOMAIN str |-> str[i]]

\* The end of the run of name characters that starts at index j.
RECURSIVE NameEnd(_, _)
NameEnd(content, j) ==
    IF j <= Len(content) /\ content[j] \in NameChars
    THEN NameEnd(content, j + 1) ELSE j

\* The index after the match that starts at index i, or 0 for no match there.
MatchAt(content, i) ==
    LET j == NameEnd(content, i + 2)
    IN  IF /\ i + 1 <= Len(content)
           /\ content[i] = "{" /\ content[i + 1] = "{"
           /\ j > i + 2
           /\ j + 1 <= Len(content)
           /\ content[j] = "}" /\ content[j + 1] = "}"
        THEN j + 2 ELSE 0

\* content.matchAll(pattern): the captured keys, in text order.
RECURSIVE matchAll(_, _)
matchAll(content, i) ==
    IF i > Len(content) THEN <<>>
    ELSE IF MatchAt(content, i) # 0
         THEN <<SubSeq(content, i + 2, MatchAt(content, i) - 3)>>
                \o matchAll(content, MatchAt(content, i))
    ELSE matchAll(content, i + 1)

\* Names every object inherits from Object.prototype (one of them).
ObjectPrototypeKeys == {<<"t", "o", "S", "t", "r", "i", "n", "g">>}

\* String() of an inherited function.
NativeCode == <<"n", "a", "t", "i", "v", "e">>

\* key in replacements: own keys and inherited ones.
HasKey(replacements, key) ==
    key \in DOMAIN replacements \/ key \in ObjectPrototypeKeys

\* String(replacements[key])
Lookup(replacements, key) ==
    IF key \in DOMAIN replacements THEN replacements[key] ELSE NativeCode

\* The first key that is neither in replacements nor ignored, as a list of
\* at most one key.
firstMissing(matches, replacements, ignored) ==
    LET bad == SelectSeq(matches,
                   LAMBDA key : ~HasKey(replacements, key) /\ key \notin ignored)
    IN  IF bad = <<>> THEN <<>> ELSE <<Head(bad)>>

\* content.replace(pattern, callback): one pass over the content.
RECURSIVE replaceAll(_, _, _)
replaceAll(content, i, replacements) ==
    IF i > Len(content) THEN <<>>
    ELSE IF MatchAt(content, i) # 0
         THEN (IF HasKey(replacements, SubSeq(content, i + 2, MatchAt(content, i) - 3))
               THEN Lookup(replacements, SubSeq(content, i + 2, MatchAt(content, i) - 3))
               ELSE SubSeq(content, i, MatchAt(content, i) - 1))
              \o replaceAll(content, MatchAt(content, i), replacements)
    ELSE <<content[i]>> \o replaceAll(content, i + 1, replacements)

applyTemplateVars(content, replacements, ignored) ==
    IF matchAll(content, 1) = <<>>
    THEN [state |-> "returned", content |-> content, key |-> <<>>]
    ELSE IF firstMissing(matchAll(content, 1), replacements, ignored) # <<>>
         THEN [state |-> "threw", content |-> <<>>,
               key |-> firstMissing(matchAll(content, 1), replacements, ignored)[1]]
    ELSE [state |-> "returned", content |-> replaceAll(content, 1, replacements),
          key |-> <<>>]

(***************************************************************************)
(* Contents are written from pieces: a placeholder, or one character.      *)
(* Fewer than five one-character pieces never make up a placeholder.       *)
(***************************************************************************)
MaxPieces == 3

NameA == <<"A">>
NameB == <<"B">>
NameToString == <<"t", "o", "S", "t", "r", "i", "n", "g">>

Placeholder(name) == [kind |-> "placeholder", name |-> name]
Literal(c) == [kind |-> "text", name |-> <<c>>]

PieceText(piece) ==
    IF piece.kind = "placeholder"
    THEN <<"{", "{">> \o piece.name \o <<"}", "}">>
    ELSE piece.name

Pieces ==
    { Placeholder(NameA), Placeholder(NameB), Placeholder(NameToString),
      Literal("{"), Literal("}"), Literal("A"), Literal(" ") }

RECURSIVE Flatten(_)
Flatten(seqs) == IF seqs = <<>> THEN <<>> ELSE Head(seqs) \o Flatten(Tail(seqs))

ContentOf(pieces) == Flatten([i \in DOMAIN pieces |-> PieceText(pieces[i])])

\* The values a variable can have; one of them reads like a placeholder.
ValuesA == {<<"v">>, <<"{", "{", "B", "}", "}">>}
ValuesB == {<<"w">>}

VarMaps ==
    { [k \in {} |-> <<>>] }
    \cup { [k \in {NameA} |-> a] : a \in ValuesA }
    \cup { [k \in {NameB} |-> b] : b \in ValuesB }
    \cup { [k \in {NameA, NameB} |-> IF k = NameA THEN ab[1] ELSE ab[2]] :
             ab \in ValuesA \X ValuesB }

InitRender ==
    /\ MergeIdle
    /\ SyncIdle
    /\ ApplyIdle
    /\ templateText \in UNION {[1..n -> Pieces] : n \in 0..MaxPieces}
    /\ templateVars \in VarMaps
    /\ ignoredVariables \in SUBSET {NameA, NameB, NameToString}
    /\ rendered = NotRendered

Render ==
    /\ rendered = NotRendered
    /\ rendered' = applyTemplateVars(ContentOf(templateText), templateVars,
                                     ignoredVariables)
    /\ UNCHANGED <<mergeVars, syncVars, applyVars, templateText, templateVars, ignoredVariables>>

NextRender == Render

SpecRender == InitRender /\ [][NextRender]_vars

\* The placeholders of the content, in text order.
PlaceholdersOf(pieces) ==
    SelectSeq(pieces, LAMBDA piece : piece.kind = "placeholder")

Unresolved(pieces) ==
    SelectSeq(PlaceholdersOf(pieces),
              LAMBDA piece : /\ piece.name \notin DOMAIN templateVars
                             /\ piece.name \notin ignoredVariables)

\* Each placeholder that has a variable replaced by the variable's value,
\* everything else as written.
Substituted(pieces) ==
    Flatten([i \in DOMAIN pieces |->
               IF /\ pieces[i].kind = "placeholder"
                  /\ pieces[i].name \in DOMAIN templateVars
               THEN templateVars[pieces[i].name]
               ELSE PieceText(pieces[i])])

\* C12: when some placeholder's name is in neither the variable map nor the
\* ignored set the call throws, naming the first such placeholder in text
\* order, and returns no content; otherwise it returns the content with each
\* placeholder that has a variable replaced by its value, once, the values
\* themselves not being scanned again.
C12_MissingVariableOrSinglePass ==
    rendered # NotRendered =>
        IF Unresolved(templateText) # <<>>
        THEN /\ rendered.state = "threw"
             /\ rendered.key = Unresolved(templateText)[1].name
             /\ rendered.content = <<>>
        ELSE /\ rendered.state = "returned"
             /\ rendered.content = Substituted(templateText)

\* The outputs in which every ignored placeholder and every character stands
\* as written, whatever stands for the other placeholders.
RECURSIVE IgnoredKept(_)
IgnoredKept(pieces) ==
    IF pieces = <<>> THEN {<<>>}
    ELSE LET piece == Head(pieces)
             free == piece.kind = "placeholder" /\ piece.name \notin ignoredVariables
             heads == IF free
                      THEN {Lookup(templateVars, piece.name), PieceText(piece)}
                      ELSE {PieceText(piece)}
         IN  {h \o t : h \in heads, t \in IgnoredKept(Tail(pieces))}

\* C13: whatever the variable map, a placeholder whose name is in the ignored
\* set stands verbatim in the returned content.
C13_IgnoredPlaceholdersVerbatim ==
    rendered.state = "returned" => rendered.content \in IgnoredKept(templateText)

(***************************************************************************)
(* template-apply.ts: applyTemplateToProject.                              *)
(***************************************************************************)
renderRest(filePath, text, rest) ==
    IF rest.threw THEN rest
    ELSE [rest EXCEPT !.entries = <<[filePath |-> filePath, content |-> text]>> \o @]

\* renderTemplateFiles: the files in list order; the first missing template
\* file or missing variable throws.
RECURSIVE renderTemplateFiles(_, _, _)
renderTemplateFiles(files, srcs, replacements) ==
    IF files = <<>> THEN [threw |-> FALSE, message |-> "", entries |-> <<>>]
    ELSE IF ~srcs[Head(files)].exists
         THEN [threw |-> TRUE, message |-> "Missing template file", entries |-> <<>>]
    ELSE IF applyTemplateVars(srcs[Head(files)].text, replacements, {}).state = "threw"
         THEN [threw |-> TRUE, message |-> "Missing template var", entries |-> <<>>]
    ELSE renderRest(Head(files),
                    applyTemplateVars(srcs[Head(files)].text, replacements, {}).content,
                    renderTemplateFiles(Tail(files), srcs, replacements))

\* A tree in which every path is free.
existingFilesNone(entries, tree) == <<>>

\* renderedTemplates.filter((entry) => existsSync(join(projectRoot, entry.filePath)))
existingFiles(entries, tree) ==
    SelectSeq(entries, LAMBDA entry : tree[entry.filePath].exists)

\* The loop of writeFileSync calls, in list order.
RECURSIVE writeEntries(_, _)
writeEntries(entries, tree) ==
    IF entries = <<>> THEN tree
    ELSE writeEntries(Tail(entries),
                      [tree EXCEPT ![Head(entries).filePath] = Present(Head(entries).content)])

\* templates.includes(templateName) ? templates : [...templates, templateName]
updatedTemplates(templates, templateName) ==
    IF Includes(templates, templateName) THEN templates
    ELSE Append(templates, templateName)

ApplyResult(state, message, tree, file) ==
    [state |-> state, message |-> message, tree |-> tree, file |-> file]

\* The part of applyTemplateToProject that follows the rendering.
applyRendered(entries, tree, file, templateName) ==
    IF existingFiles(entries, tree) # <<>>
    THEN ApplyResult("threw", "files already exist", tree, file)
    ELSE IF ~file.exists
         THEN ApplyResult("threw", "Project config not found",
                          writeEntries(entries, tree), file)
    ELSE ApplyResult("returned", "", writeEntries(entries, tree),
                     [file EXCEPT !.templates = updatedTemplates(@, templateName)])

applyTemplateToProject(projectFound, templateFound, rootExists, tpl, replacements, tree, file) ==
    IF ~projectFound THEN ApplyResult("threw", "Project not found", tree, file)
    ELSE IF ~templateFound THEN ApplyResult("threw", "Template not found", tree, file)
    ELSE IF ~rootExists THEN ApplyResult("threw", "Project path does not exist", tree, file)
    ELSE IF renderTemplateFiles(tpl.files, tpl.sources, replacements).threw
         THEN ApplyResult("threw",
                          renderTemplateFiles(tpl.files, tpl.sources, replacements).message,
                          tree, file)
    ELSE applyRendered(renderTemplateFiles(tpl.files, tpl.sources, replacements).entries,
                       tree, file, "ci")

MaxTemplateFiles == 2

OldText == <<"o", "l", "d">>

TemplateSources ==
    { Absent, Present(<<"x">>), Present(<<"{", "{", "A", "}", "}">>) }

InitApply ==
    /\ MergeIdle
    /\ SyncIdle
    /\ templateText = <<>>
    /\ templateVars \in VarMaps
    /\ ignoredVariables = {}
    /\ rendered = NotRendered
    /\ templateDef \in [files : UNION {[1..n -> TargetPaths] : n \in 0..MaxTemplateFiles},
                        sources : [TargetPaths -> TemplateSources]]
    /\ projectTree \in [TargetPaths -> {Absent, Present(OldText)}]
    /\ projectFile \in [exists : BOOLEAN, templates : {<<>>, <<"ci">>, <<"docs">>}]
    /\ applied = NotApplied
    /\ semverInput = <<>>
    /\ semverResult = NotCompared
    /\ ChangesIdle

\* cookie-manager template apply <project> <template>
ApplyTemplate ==
    /\ applied = NotApplied
    /\ \E projectFound \in BOOLEAN, templateFound \in BOOLEAN, rootExists \in BOOLEAN :
          /\ (~rootExists => projectTree = [path \in TargetPaths |-> Absent])
          /\ LET result == applyTemplateToProject(projectFound, templateFound, rootExists,
                               templateDef, templateVars, projectTree, projectFile)
             IN  /\ applied' = [state |-> result.state, message |-> result.message,
                                tree |-> projectTree, file |-> projectFile]
                 /\ projectTree' = result.tree
                 /\ projectFile' = result.file
    /\ UNCHANGED <<mergeVars, syncVars, renderVars, templateDef, semverInput, semverResult,
                   changeVars>>

NextApply == ApplyTemplate

SpecApply == InitApply /\ [][NextApply]_vars

\* Some target path of the template was in the project when the call began.
TargetExisted ==
    \E i \in DOMAIN templateDef.files : applied.tree[templateDef.files[i]].exists

\* C14: when a target path of the template already exists in the project the
\* call fails, and then no file of the project was written or changed and the
\* project's config file is as it was.
C14_ExistingTargetBlocksApply ==
    (applied # NotApplied /\ TargetExisted) =>
        /\ applied.state = "threw"
        /\ projectTree = applied.tree
        /\ projectFile = applied.file

\* The check itself refused: the first target was free and would have been
\* written, the second one existed.
C14_Witness ==
    /\ applied.state = "threw"
    /\ applied.message = "files already exist"
    /\ templateDef.files = <<"p", "q">>
    /\ ~applied.tree["p"].exists
    /\ applied.tree["q"].exists
    /\ projectTree = applied.tree
    /\ projectFile.exists

(***************************************************************************)
(* compareSemver over versions of one to three segments, numeric and not.  *)
(***************************************************************************)
MaxSegments == 3

Segments == {<<"0">>, <<"2">>, <<"1", "0">>, <<"1", "a">>}

Versions == UNION {[1..n -> Segments] : n \in 1..MaxSegments}

\* The version with zero segments appended up to the full length.
Padded(version) ==
    [i \in 1..MaxSegments |-> IF i <= Len(version) THEN version[i] ELSE Zero]

InitSemver ==
    /\ MergeIdle
    /\ SyncIdle
    /\ RenderIdle
    /\ templateDef = [files |-> <<>>, sources |-> [path \in TargetPaths |-> Absent]]
    /\ projectTree = [path \in TargetPaths |-> Absent]
    /\ projectFile = [exists |-> FALSE, templates |-> <<>>]
    /\ applied = NotApplied
    /\ semverInput \in Versions \X Versions \X Versions
    /\ semverResult = NotCompared
    /\ ChangesIdle

Compare ==
    /\ semverResult = NotCompared
    /\ semverResult' =
          [state |-> "done",
           aa |-> compareSemver(semverInput[1], semverInput[1]),
           ab |-> compareSemver(semverInput[1], semverInput[2]),
           ba |-> compareSemver(semverInput[2], semverInput[1]),
           bc |-> compareSemver(semverInput[2], semverInput[3]),
           ac |-> compareSemver(semverInput[1], semverInput[3]),
           padded |-> compareSemver(semverInput[1], Padded(semverInput[1]))]
    /\ UNCHANGED <<mergeVars, syncVars, renderVars, templateDef, projectTree,
                   projectFile, applied, semverInput, changeVars>>

NextSemver == Compare

SpecSemver == InitSemver /\ [][NextSemver]_vars

\* C15: compareSemver is reflexive (0 on equal arguments), antisymmetric
\* (swapping the arguments negates the result) and transitive (a <= b and
\* b <= c give a <= c), and a version equals itself padded with zero segments.
C15_SemverIsTotalOrder ==
    semverResult.state = "done" =>
        /\ semverResult.aa = 0
        /\ semverResult.ab = -semverResult.ba
        /\ (semverResult.ab <= 0 /\ semverResult.bc <= 0) => semverResult.ac <= 0
        /\ semverResult.padded = 0


\* Fragment j changes the type of what fragment i, of another source, wrote
\* at the path: an object for a scalar or array, or the other way round.
ChangesType(i, j, path) ==
    /\ i # 0
    /\ fragments[i].source # fragments[j].source
    /\ Wrote(i, path) /\ Wrote(j, path)
    /\ isPlainObject(ValueAt(fragments[i].value, path))
         # isPlainObject(ValueAt(fragments[j].value, path))

\* C18: when a fragment changes the type of the value another source wrote
\* at a path, from an object to a scalar or array or from a scalar or array to
\* an object, a conflict is recorded at that path with the overwriting value
\* as next value.
C18_TypeChangeIsAConflict ==
    \A path \in KeyPaths : \A j \in DOMAIN fragments :
        ChangesType(LastDecidingBefore(j, path), j, path) =>
            \E n \in DOMAIN conflicts :
                /\ conflicts[n].path = formatPath(path)
                /\ conflicts[n].nextSource = fragments[j].source
                /\ conflicts[n].nextValue = ValueAt(fragments[j].value, path)

(***************************************************************************)
(* SpecChanges: one call of resolveFeatureChanges(feature).  `changes` is  *)
(* the object of the feature file, kept as the list of its entries in the  *)
(* order they are written; its keys are versions, each at most once.       *)
(***************************************************************************)
MaxChanges == 3

ChangeKeys == {V2, V9, V10}

Move(from, to) == [from |-> from, to |-> to]

\* The `renames` of one entry: none, one rename, or two that touch.
RenameMaps ==
    {<<>>} \cup {<<Move(a, b)>> : <<a, b>> \in {m \in Paths \X Paths : m[1] # m[2]}}
           \cup {<<Move("p", "q"), Move("q", "j")>>, <<Move("p", "q"), Move("q", "p")>>}

DeleteLists == {<<>>, <<"p">>, <<"q">>}

\* The version keys of a changes object in the order they were written: an
\* object holds a key once.
KeyOrders ==
    {o \in UNION {[1..n -> ChangeKeys] : n \in 0..MaxChanges} :
        \A i \in DOMAIN o : \A j \in DOMAIN o : o[i] = o[j] => i = j}

\* What one entry holds beside its version key.
ChangeBodies == [renames : RenameMaps, deletes : DeleteLists]

\* The changes object whose keys were written in the order o, with bodies c.
History(o, c) == [i \in DOMAIN o |-> Change(o[i], c[i].renames, c[i].deletes)]

InitChanges ==
    /\ MergeIdle
    /\ SyncIdle
    /\ RenderIdle
    /\ templateDef = [files |-> <<>>, sources |-> [path \in TargetPaths |-> Absent]]
    /\ projectTree = [path \in TargetPaths |-> Absent]
    /\ projectFile = [exists |-> FALSE, templates |-> <<>>]
    /\ applied = NotApplied
    /\ semverInput = <<>>
    /\ semverResult = NotCompared
    /\ \E version \in ChangeKeys : \E o \in KeyOrders :
          \E c \in [DOMAIN o -> ChangeBodies] :
              changeFeature = [version |-> version, changes |-> History(o, c)]
    /\ changeResult = NotResolved

Resolve ==
    /\ changeResult = NotResolved
    /\ changeResult' =
          [state |-> "returned",
           renames |-> resolveFeatureChanges(changeFeature).renames,
           deletes |-> resolveFeatureChanges(changeFeature).deletes]
    /\ UNCHANGED <<mergeVars, syncVars, renderVars, templateDef, projectTree,
                   projectFile, applied, semverInput, semverResult, changeFeature>>

NextChanges == Resolve

SpecChanges == InitChanges /\ [][NextChanges]_vars


(***************************************************************************)
(* What a change history says, read entry by entry.                        *)
(***************************************************************************)
\* The entries of the history whose key is at most the declared version.
Applicable(feature) ==
    {i \in DOMAIN feature.changes :
        VersionNumber(feature.changes[i].version) <= VersionNumber(feature.version)}

\* The entries of S, lowest version first.
RECURSIVE Ascending(_, _)
Ascending(feature, S) ==
    IF S = {} THEN <<>>
    ELSE LET i == CHOOSE i \in S : \A j \in S :
                    VersionNumber(feature.changes[i].version)
                      <= VersionNumber(feature.changes[j].version)
         IN  <<feature.changes[i]>> \o Ascending(feature, S \ {i})

AppliedEntries(feature) == Ascending(feature, Applicable(feature))

\* Every rename of the applicable entries, in the order they take effect.
RenameSteps(feature) ==
    Flatten([i \in DOMAIN AppliedEntries(feature) |-> AppliedEntries(feature)[i].renames])

\* Where a file at `path` is after the renames `steps` have happened in order.
Chase(path, steps) == FoldLeft(LAMBDA x, r : IF r.from = x THEN r.to ELSE x, path, steps)

LastStepFrom(steps, x) ==
    CHOOSE k \in DOMAIN steps :
        steps[k].from = x /\ \A n \in DOMAIN steps : steps[n].from = x => n <= k

\* Where the last rename of x sends it, followed through the later renames.
Destination(steps, x) ==
    Chase(steps[LastStepFrom(steps, x)].to,
          SubSeq(steps, LastStepFrom(steps, x) + 1, Len(steps)))

ExpectedRenames(steps) ==
    {Move(steps[k].from, Destination(steps, steps[k].from)) : k \in DOMAIN steps}

\* C27: the resolved rename map has one entry for each path that an
\* applicable entry (version key at most the declared version) renames, and
\* sends it to where the destination of its last rename ends up when the
\* later renames, in ascending version order, are followed; so a renamed to
\* b and b later renamed to c, with nothing moved after that, gives a -> c
\* and b -> c.
C27_RenamesFollowTheChain ==
    changeResult.state = "returned" =>
        /\ Range(changeResult.renames) = ExpectedRenames(RenameSteps(changeFeature))
        /\ \A m \in DOMAIN changeResult.renames : \A n \in DOMAIN changeResult.renames :
              changeResult.renames[m].from = changeResult.renames[n].from => m = n

\* The history lists 10.0.0 ahead of 2.0.0 and 9.0.0; 10.0.0 is above the
\* declared version; p goes to q at 2.0.0 and q to j at 9.0.0.
C27_Witness ==
    /\ changeResult.state = "returned"
    /\ changeFeature.version = V9
    /\ changeFeature.changes =
          <<[version |-> V10, renames |-> <<Move("j", "p")>>, deletes |-> <<>>],
            [version |-> V9, renames |-> <<Move("q", "j")>>, deletes |-> <<>>],
            [version |-> V2, renames |-> <<Move("p", "q")>>, deletes |-> <<>>]>>
    /\ Range(changeResult.renames) = {Move("p", "j"), Move("q", "j")}

\* C27 as stated: the resolved rename map has an entry exactly for the paths
\* the applicable entries rename, and whenever an applicable entry renames a
\* to b and an applicable entry of a later version renames b to c, the map
\* sends a to c and b to c.
C27_RenamesComposeTransitively ==
    changeResult.state = "returned" =>
        LET entries == AppliedEntries(changeFeature)
        IN  /\ {changeResult.renames[n].from : n \in DOMAIN changeResult.renames}
                 = {RenameSteps(changeFeature)[k].from :
                        k \in DOMAIN RenameSteps(changeFeature)}
            /\ \A i \in DOMAIN entries : \A j \in DOMAIN entries :
                  i < j =>
                    \A r1 \in Range(entries[i].renames) :
                      \A r2 \in Range(entries[j].renames) :
                        r1.to = r2.from =>
                            /\ Move(r1.from, r2.to) \in Range(changeResult.renames)
                            /\ Move(r2.from, r2.to) \in Range(changeResult.renames)


\* Entry e of the applied entries deletes the path and no entry after it
\* renames the path away.
DeleteStands(entries, e, path) ==
    /\ Includes(entries[e].deletes, path)
    /\ \A n \in (e + 1)..Len(entries) :
          \A r \in Range(entries[n].renames) : r.from # path

ExpectedDeletes(entries) ==
    {path \in Paths : \E e \in DOMAIN entries : DeleteStands(entries, e, path)}

\* C28: the resolved delete list holds, exactly once each, the paths that an
\* applicable entry deletes and that no applicable entry of a later version
\* renames away after that delete; a path whose every delete is followed by
\* such a rename is absent.
C28_RenameAfterDeleteWins ==
    changeResult.state = "returned" =>
        /\ Range(changeResult.deletes) = ExpectedDeletes(AppliedEntries(changeFeature))
        /\ Len(changeResult.deletes) = Cardinality(Range(changeResult.deletes))

\* p is deleted at 2.0.0 and renamed at 9.0.0, q is deleted at 9.0.0: the
\* resolved list holds q and not p.
C28_Witness ==
    /\ changeResult.state = "returned"
    /\ changeFeature.version = V9
    /\ changeFeature.changes =
          <<[version |-> V9, renames |-> <<Move("p", "j")>>, deletes |-> <<"q">>],
            [version |-> V2, renames |-> <<>>, deletes |-> <<"p">>]>>
    /\ changeResult.deletes = <<"q">>

\* C28 as stated: a path that an applicable entry deletes and an applicable
\* entry of a later version renames is absent from the resolved delete list;
\* every other path deleted by an applicable entry is in it exactly once.
C28_DeletedThenRenamedIsAbsent ==
    changeResult.state = "returned" =>
        LET entries == AppliedEntries(changeFeature)
            deleted == {path \in Paths : \E e \in DOMAIN entries :
                            Includes(entries[e].deletes, path)}
            renamedLater == {path \in deleted :
                               \E e \in DOMAIN entries : \E n \in DOMAIN entries :
                                  /\ e < n
                                  /\ Includes(entries[e].deletes, path)
                                  /\ \E r \in Range(entries[n].renames) : r.from = path}
        IN  /\ Range(changeResult.deletes) = deleted \ renamedLater
            /\ Len(changeResult.deletes) = Cardinality(Range(changeResult.deletes))


\* The template name that ApplyTemplate applies.
AppliedName == "ci"

Occurrences(list, x) == Cardinality({n \in DOMAIN list : list[n] = x})

\* C25: when applyTemplateToProject throws, the project tree and the project
\* config file are as they were; when it returns, every file of the template
\* is in the tree with its rendered content, and the templates list holds
\* the template name once, after or among the entries it had, which keep
\* their order.
C25_ApplyIsAllOrNothing ==
    applied # NotApplied =>
        /\ applied.state = "threw" =>
              (projectTree = applied.tree /\ projectFile = applied.file)
        /\ applied.state = "returned" =>
              /\ \A i \in DOMAIN templateDef.files :
                    projectTree[templateDef.files[i]]
                      = Present(applyTemplateVars(
                                  templateDef.sources[templateDef.files[i]].text,
                                  templateVars, {}).content)
              /\ Occurrences(projectFile.templates, AppliedName) = 1
              /\ SelectSeq(projectFile.templates, LAMBDA t : t # AppliedName)
                    = SelectSeq(applied.file.templates, LAMBDA t : t # AppliedName)
              /\ IsPrefix(applied.file.templates, projectFile.templates)


\* The fragment merged last changes the type of what another source wrote at
\* the path.
TypeChangedByLast(path) ==
    /\ fragments # <<>>
    /\ ChangesType(LastDecidingBefore(Len(fragments), path), Len(fragments), path)

StrictlyBelow(pathKey, prefix) == IsPrefix(prefix, pathKey) /\ Len(pathKey) > Len(prefix)

\* C26: when the fragment being merged changes the type of the value at a
\* path that an earlier source wrote, no conflict recorded before at a path
\* below it is left in the conflict list.
C26_TypeChangeClearsConflictsBelow ==
    [][\A path \in KeyPaths :
          TypeChangedByLast(path)' =>
              \A n \in DOMAIN conflicts :
                  StrictlyBelow(conflicts[n].path, formatPath(path))
                    => conflicts[n] \notin Range(conflicts')]_vars


\* The paths a fragment writes: where it holds a value that is no object.
WrittenPaths(i) ==
    {path \in KeyPaths : Wrote(i, path) /\ ~isPlainObject(ValueAt(fragments[i].value, path))}

\* No written path of one fragment equals or is a prefix of a written path
\* of another.
PairwiseDisjoint ==
    \A i \in DOMAIN fragments : \A j \in DOMAIN fragments :
        i # j => \A p \in WrittenPaths(i) : \A q \in WrittenPaths(j) : ~IsPrefix(p, q)

\* The fragment list in every order.
Orderings ==
    {[n \in DOMAIN fragments |-> fragments[perm[n]]] : perm \in Permutations(DOMAIN fragments)}

\* C29: when the written paths of the fragments are pairwise disjoint, the
\* merge of every ordering of the fragments is deep-equal to the merged object
\* and has no conflicts.
C29_DisjointFragmentsCommute ==
    PairwiseDisjoint =>
        \A order \in Orderings :
            /\ deepEqual(mergeJsonFragments(base, order).merged, merged)
            /\ deepEqual(merged, mergeJsonFragments(base, order).merged)
            /\ mergeJsonFragments(base, order).conflicts = <<>>


\* The features whose fileMerge.json for j are the fragments merged so far,
\* one feature per fragment, in list order.
FragmentFeatures ==
    [n \in DOMAIN fragments |->
        Feature(fragments[n].source, V1, <<>>, <<>>, <<>>, <<>>,
                Tree(NoFile, NoFile, Pretty(fragments[n].value)), <<"j">>)]

\* The tree in which j is the merged object as sync writes it.
WrittenTree == Tree(NoFile, NoFile, stringifyJson(merged))

\* C30: merging the same fragments into the merged object gives an object
\* deep-equal to it, and status finds no json-merge mismatch in the file that
\* holds the merged object (sync writes it when the merge has no conflicts).
C30_MergeIsIdempotent ==
    LET again == mergeJsonFragments(merged, fragments).merged
    IN  /\ deepEqual(again, merged)
        /\ deepEqual(merged, again)
        /\ conflicts = <<>> =>
              detectJsonMergeDrift(FragmentFeatures, {}, WrittenTree).mismatches = <<>>

\* Three fragments were merged without conflict into an object that differs
\* from the base; the second replaced the object the first wrote at a.
C30_Witness ==
    /\ Len(fragments) = 3
    /\ conflicts = <<>>
    /\ base = JKey("a", JArr(<<S1>>))
    /\ fragments[1].value = JKey("a", JKey("b", S1))
    /\ fragments[2].value = JKey("a", S2)
    /\ fragments[3].value = JKeys2("a", JKey("a", S1), "b", S1)
    /\ merged = JKeys2("a", JKey("a", S1), "b", S1)


=============================================================================
